---- MODULE Spec2Model ----
(***************************************************************************)
(* cslog: context-attribute resolution and log-id lineage.                 *)
(*                                                                         *)
(* Contexts are modelled the way context.WithValue builds them: a heap of  *)
(* immutable nodes (parent, key, val); handle 0 is context.Background().   *)
(* A Logger wraps exactly one *ContextHandler, so loggers are identified   *)
(* with the entries of the handler heap.  The inner sink is observed       *)
(* through the last record it was handed.                                  *)
(***************************************************************************)
EXTENDS Integers, Sequences, FiniteSets, TLC

\* ------------------------------------------------------------------ bounds
\* context nodes on the heap
MaxCtx == 3
\* context nodes on the heap where only fresh and child binds run
MaxLineage == 5
\* loggers made by Logger.WithContext and Logger.WithChildContext
MaxBound == 1
\* context nodes and bound loggers where only Bind, BindChild and logging run
MaxChildCtx == 4
MaxChildBound == 2
\* descriptors registered by AddContextAttrs and Logger.WithContextAttrs
MaxRegistered == 1
\* ContextHandler objects, and the longest []ContextAttr slice
MaxSinks == 3
MaxSlots == 2
\* ContextHandler objects where only the Logger and LoggerProvider calls run
MaxLoggers == 4
\* goroutines that call concurrently, and NewID calls they make in all
MaxGoroutines == 3
MaxNewIDs == 4
\* Handle calls the goroutines make in all
MaxHandles == 2

\* ------------------------------------------------------------------ values
\* Go values of type any that the model distinguishes: {t: dynamic type, v}.
Nil == [t |-> "nil", v |-> ""]
Str(s) == [t |-> "string", v |-> s]
IntVal == [t |-> "int", v |-> "100"]
Group(key, s) == [t |-> "group", v |-> key \o "=" \o s]

\* ---------------------------------------------------------------- id.go
ZeroBytes == "0000000000000000"
StringLogID(s) == [t |-> "StringLogID", v |-> s]
ByteLogID(hex) == [t |-> "ByteLogID", v |-> hex]

IsLogID(x) == x.t \in {"StringLogID", "ByteLogID"}

IsZero(id) ==
    IF id.t = "StringLogID" THEN id.v = "" ELSE id.v = ZeroBytes

String(id) ==
    IF id.t = "StringLogID" THEN id.v
    ELSE IF IsZero(id) THEN "" ELSE id.v

\* ------------------------------------------------------- id generators
Digit == <<"0", "1", "2", "3", "4", "5", "6", "7", "8", "9">>

RECURSIVE Dec(_)
Dec(n) == IF n < 10 THEN Digit[n + 1] ELSE Dec(n \div 10) \o Digit[(n % 10) + 1]

RECURSIVE NumDigits(_)
NumDigits(n) == IF n < 10 THEN 1 ELSE 1 + NumDigits(n \div 10)

RECURSIVE Zeros(_)
Zeros(k) == IF k <= 0 THEN "" ELSE "0" \o Zeros(k - 1)

\* fmt.Sprintf("%016d", n)
Sprintf016d(n) == Zeros(16 - NumDigits(n)) \o Dec(n)

\* the 8-byte values the pseudorandom source can produce (hex of the bytes)
RandBytes == {ZeroBytes, "d0bbfc94ea303585"}

GenKinds == {"randGen", "CountUpIDGen"}

\* the identifiers generator g can return from its next NewID call
NewIDs(g) ==
    IF g.kind = "CountUpIDGen" THEN {StringLogID(Sprintf016d(g.cnt))}
    ELSE {ByteLogID(b) : b \in RandBytes}

\* the generator after one NewID call (cnt also counts randGen's reads)
AfterNewID(g) == [g EXCEPT !.cnt = g.cnt + 1]

\* ------------------------------------------------------------ state
VARIABLES
    ctxs,         \* heap of context nodes [parent, key, val]; handle 0 is Background
    held,         \* handles of the contexts the application holds
    logIdGenerator, \* the installed IDGenerator [kind, cnt]
    handlers,     \* heap of *ContextHandler values [attrs]; a Logger wraps one
    provider,     \* defaultLoggerProvider.logger: handle into handlers
    logLevel,     \* the level threshold of the inner sink
    bound,        \* per handler: how Logger.WithContext/WithChildContext made it
    made,         \* per context node: the call that made it
    sink,         \* the last logging call and the record the inner sink received
    foreignIds,   \* some id was issued by a generator that is no longer installed
    panicked,     \* a Go panic has unwound the program
    arrays,       \* heap of the backing arrays of []ContextAttr slices [cap, elems]
    chs,          \* heap of ContextHandler objects [ih, attrs] with attrs a slice
    list,         \* the []ContextAttr slice the caller of SetContextAttrs holds
    probe,        \* the last call on a ContextHandler object or logging entry point
    calls,        \* per goroutine: the call it is in and the locals of that call
    shared        \* what concurrent calls share: the mutex, the source, the inner handler

\* the goroutines and what they share
conc == <<calls, shared>>

\* the state of the ContextHandler objects, of the call probe and of the goroutines
aux == <<arrays, chs, list, probe, conc>>

vars == <<ctxs, held, logIdGenerator, handlers, provider, logLevel, bound, made, sink,
          foreignIds, panicked, aux>>

\* a slice header: backing array (0 for none) and length
NilSlice == [arr |-> 0, len |-> 0]

NoProbe == [op |-> "none"]

\* no goroutine besides the one whose calls the other variables describe
NoCalls ==
    /\ calls = <<>>
    /\ shared = [kind |-> "none"]

\* no ContextHandler object exists and nothing was probed
NoSinks ==
    /\ arrays = <<>>
    /\ chs = <<>>
    /\ list = NilSlice
    /\ probe = NoProbe
    /\ NoCalls

\* ------------------------------------------------------- context.go
Background == 0

keyLogID == "ctxKeyLogID"
keyParentLogID == "ctxKeyParentLogID"
ctxKey1 == "ctxKey1"

\* ctx.Value(key) on the chain of nodes that ends in handle c of heap cs
RECURSIVE Value(_, _, _)
Value(cs, c, key) ==
    IF c = Background THEN Nil
    ELSE IF cs[c].key = key THEN cs[c].val
    ELSE Value(cs, cs[c].parent, key)

\* context.WithValue(c, key, val): a new node on top of c; [cs, c] is the
\* heap after the call and the handle returned
WithValue(cs, c, key, val) ==
    [cs |-> Append(cs, [parent |-> c, key |-> key, val |-> val]), c |-> Len(cs) + 1]

GetLogID(cs, c) ==
    LET x == Value(cs, c, keyLogID) IN IF IsLogID(x) THEN x ELSE Nil

\* a SetLogID that overwrites the node it is given instead of layering on it
SetLogIDInPlace(cs, c, logID) ==
    IF c = Background THEN WithValue(cs, c, keyLogID, logID)
    ELSE [cs |-> [cs EXCEPT ![c] = [parent |-> cs[c].parent, key |-> keyLogID,
                                    val |-> logID]],
          c |-> c]

SetLogID(cs, c, logID) == WithValue(cs, c, keyLogID, logID)

GetParentLogID(cs, c) ==
    LET x == Value(cs, c, keyParentLogID) IN IF IsLogID(x) THEN x ELSE Nil

SetParentLogID(cs, c, parentLogID) == WithValue(cs, c, keyParentLogID, parentLogID)

\* a fresh bind that stores the new id in the parent slot
WithLogContextIntoParent(cs, c, id) == SetParentLogID(cs, c, id)

\* WithLogContext with id the value NewID returned
WithLogContext(cs, c, id) == SetLogID(cs, c, id)

\* a child bind that carries the parent id over instead of advancing it
WithChildLogContextKeepParent(cs, c, id) ==
    LET newParentId == GetParentLogID(cs, c)
        p == SetParentLogID(cs, c, newParentId)
    IN  SetLogID(p.cs, p.c, id)

\* WithChildLogContext with id the value NewID returned
WithChildLogContext(cs, c, id) ==
    LET newParentId == GetLogID(cs, c)
        p == SetParentLogID(cs, c, newParentId)
    IN  SetLogID(p.cs, p.c, id)

\* a getFn result
Found(v, ok) == [value |-> v, ok |-> ok]

\* a resolver of the current id that reports found whatever it reads
getLogIdFuncAlwaysFound(cs, c) ==
    LET logId == GetLogID(cs, c)
    IN  IF logId = Nil THEN Found(Str(""), TRUE)
        ELSE Found(Str(String(logId)), TRUE)

getLogIdFunc(cs, c) ==
    LET logId == GetLogID(cs, c)
    IN  IF logId = Nil THEN Found(Str(""), FALSE)
        ELSE Found(Str(String(logId)), ~IsZero(logId))

getParentLogIdFunc(cs, c) ==
    LET parentLogId == GetParentLogID(cs, c)
    IN  IF parentLogId = Nil THEN Found(Str(""), FALSE)
        ELSE Found(Str(String(parentLogId)), ~IsZero(parentLogId))

\* ------------------------------------------------------------ attr.go
\* a GetFn without the type assertion: any stored value counts as found
GetFnAnyType(cs, c, ctxKey) ==
    LET x == Value(cs, c, ctxKey)
    IN  IF x # Nil THEN Found(x, TRUE) ELSE Found(Str(""), FALSE)

\* GetFn[string](ctxKey): the type assertion .(string)
GetFnString(cs, c, ctxKey) ==
    LET x == Value(cs, c, ctxKey)
    IN  IF x.t = "string" THEN Found(x, TRUE) ELSE Found(Str(""), FALSE)

\* the resolvers a descriptor can carry, by name; "nil" is the nil func
GetFns == {"nil", "getLogIdFunc", "getParentLogIdFunc", "GetFn"}

CallGetFn(fn, cs, c) ==
    CASE fn = "getLogIdFunc" -> getLogIdFunc(cs, c)
      [] fn = "getParentLogIdFunc" -> getParentLogIdFunc(cs, c)
      [] fn = "GetFn" -> GetFnString(cs, c, ctxKey1)

\* slog.Attr and the (attr, ok) pair a formatter returns
MkAttr(key, val) == [key |-> key, val |-> val]
NoAttr == [attr |-> MkAttr("", Nil), ok |-> FALSE]
Keep(key, val) == [attr |-> MkAttr(key, val), ok |-> TRUE]

\* SetFn(): the default formatter
SetFn(key, value) ==
    IF key = "" \/ value = Nil THEN NoAttr ELSE Keep(key, value)

\* the custom formatter of TestLogger_WithContextAttrs/setFn
CustomSetFn(key, value) ==
    IF value.t = "string"
    THEN IF value.v = "ignored" THEN NoAttr
         ELSE IF value.v = "group" THEN Keep("group1", Group(key, value.v))
         ELSE Keep("key1-custom", Str(value.v \o "-custom"))
    ELSE NoAttr

SetFns == {"nil", "custom"}

\* Context(key, defaultValue, getFn, setFn)
Context(key, defaultValue, getFn, setFn) ==
    [key |-> key, defaultValue |-> defaultValue, getFn |-> getFn, setFn |-> setFn]

\* a resolution in which a non-nil static default wins over the resolver
AttrDefaultFirst(a, cs, c) ==
    IF a.key = "" THEN NoAttr
    ELSE LET r == IF a.getFn # "nil" THEN CallGetFn(a.getFn, cs, c) ELSE Found(Nil, FALSE)
             value == IF a.defaultValue # Nil THEN a.defaultValue
                      ELSE IF a.getFn # "nil" /\ r.ok THEN r.value ELSE Nil
         IN  IF a.setFn # "nil" THEN CustomSetFn(a.key, value)
             ELSE SetFn(a.key, value)

\* a resolution that emits the static default when the formatter keeps nothing
AttrDefaultWhenDropped(a, cs, c) ==
    IF a.key = "" THEN NoAttr
    ELSE LET r == IF a.getFn # "nil" THEN CallGetFn(a.getFn, cs, c) ELSE Found(Nil, FALSE)
             value == IF a.getFn # "nil" /\ r.ok THEN r.value ELSE a.defaultValue
             kept == IF a.setFn # "nil" THEN CustomSetFn(a.key, value)
                     ELSE SetFn(a.key, value)
         IN  IF kept.ok THEN kept ELSE SetFn(a.key, a.defaultValue)

\* ContextAttr.Attr
Attr(a, cs, c) ==
    IF a.key = "" THEN NoAttr
    ELSE LET r == IF a.getFn # "nil" THEN CallGetFn(a.getFn, cs, c) ELSE Found(Nil, FALSE)
             value == IF a.getFn # "nil" /\ r.ok THEN r.value ELSE a.defaultValue
         IN  IF a.setFn # "nil" THEN CustomSetFn(a.key, value)
             ELSE SetFn(a.key, value)

\* --------------------------------------------------------- handler.go
\* a Handle that appends the derived attributes last descriptor first
HandleReversed(attrs, cs, c) ==
    LET F[i \in 0..Len(attrs)] ==
            IF i = 0 THEN <<>>
            ELSE LET r == Attr(attrs[i], cs, c)
                 IN  IF r.ok THEN <<r.attr>> \o F[i - 1] ELSE F[i - 1]
    IN  F[Len(attrs)]

\* ContextHandler.Handle: the attributes appended to the record, in order
Handle(attrs, cs, c) ==
    LET F[i \in 0..Len(attrs)] ==
            IF i = 0 THEN <<>>
            ELSE LET r == Attr(attrs[i], cs, c)
                 IN  IF r.ok THEN Append(F[i - 1], r.attr) ELSE F[i - 1]
    IN  F[Len(attrs)]

\* ContextHandler.clone
clone(h) == [attrs |-> h.attrs]

\* ContextHandler.SetContextAttrs
SetContextAttrs(h, attrs) == [clone(h) EXCEPT !.attrs = attrs]

\* ContextHandler.WithContextAttrs
WithContextAttrs(h, as) == [clone(h) EXCEPT !.attrs = h.attrs \o as]

\* ---------------------------------------------------------- logger.go
keyLogId == "logId"
keyParentLogId == "parentLogId"

Levels == <<"DEBUG", "INFO", "WARN", "ERROR">>
Rank(level) == CHOOSE i \in DOMAIN Levels : Levels[i] = level

\* slog's level test of the inner sink against logLevel
Enabled(threshold, level) == Rank(level) >= Rank(threshold)

\* NewLoggerProvider: the handler of the provider's logger
NewLoggerProvider ==
    [attrs |-> << Context(keyLogId, Nil, "getLogIdFunc", "nil"),
                  Context(keyParentLogId, Nil, "getParentLogIdFunc", "nil") >>]

IsIdKey(a) == a.key = keyLogId \/ a.key = keyParentLogId

\* the static default Logger.WithContext gives the logId descriptor
PinnedLogId(cs, newCtx) == Str(String(GetLogID(cs, newCtx)))

\* a parent default taken from the current id instead of the parent id
PinnedParentIdFromCurrent(cs, c) ==
    LET pid == GetLogID(cs, c)
    IN  IF pid # Nil /\ ~IsZero(pid) THEN Str(String(pid)) ELSE Nil

\* the static default Logger.WithContext gives the parentLogId descriptor
PinnedParentId(cs, c) ==
    LET pid == GetParentLogID(cs, c)
    IN  IF pid # Nil /\ ~IsZero(pid) THEN Str(String(pid)) ELSE Nil

\* a derived descriptor that pins nothing
PinnedAttrUnpinned(attr, cs, c) == Context(attr.key, Nil, attr.getFn, "nil")

\* a derivation that keeps the receiver's static default when the resolver
\* finds nothing in the context
PinnedAttrKeepsDefault(attr, cs, c) ==
    LET r == CallGetFn(attr.getFn, cs, c)
    IN  Context(attr.key, IF r.ok THEN r.value ELSE attr.defaultValue, attr.getFn, "nil")

\* the descriptor Logger.WithContext derives from a non-id descriptor
\* (called only when attr.getFn is not nil)
PinnedAttr(attr, cs, c) ==
    LET r == CallGetFn(attr.getFn, cs, c)
    IN  Context(attr.key, IF r.ok THEN r.value ELSE Nil, attr.getFn, "nil")

\* Logger.WithContext on a logger whose handler is h, with id the value a
\* NewID call returns: the heap after the call, the context returned, whether
\* NewID was called, whether the call panicked (nil getFn called), and the
\* handler of the logger returned
LoggerWithContext(h, cs, c, id) ==
    LET cur == GetLogID(cs, c)
        drew == cur = Nil \/ IsZero(cur)
        n == IF drew THEN WithLogContext(cs, c, id) ELSE [cs |-> cs, c |-> c]
        others == SelectSeq(h.attrs, LAMBDA a : ~IsIdKey(a))
        newAttrs ==
            << Context(keyLogId, PinnedLogId(n.cs, n.c), "getLogIdFunc", "nil"),
               Context(keyParentLogId, PinnedParentId(cs, c), "getParentLogIdFunc", "nil") >>
            \o [i \in DOMAIN others |->
                   IF others[i].getFn = "nil" THEN others[i]
                   ELSE PinnedAttr(others[i], cs, c)]
    IN  [cs |-> n.cs, newCtx |-> n.c, drew |-> drew,
         panic |-> \E i \in DOMAIN others : others[i].getFn = "nil",
         h |-> SetContextAttrs(h, newAttrs)]

\* how a handler came to be, for the handlers Logger.WithContext and
\* Logger.WithChildContext returned
NotBound == [op |-> "none", recv |-> 0, ctx |-> 0, inner |-> 0, newCtx |-> 0, drawn |-> <<>>]

\* how a context node came to be: the call, its argument, the id NewID
\* returned for it, the generator it was drawn from, and whether every id
\* issued until then came from that generator
Made(op, src, id, gen, sole) ==
    [op |-> op, src |-> src, id |-> id, gen |-> gen, sole |-> sole]

NoGen == [kind |-> "", cnt |-> 0]

\* the nodes WithChildLogContext(c) adds, with id drawn from generator g
MadeChild(c, id, g) ==
    << Made("SetParentLogID", c, Nil, NoGen, FALSE),
       Made("WithChildLogContext", c, id, g, ~foreignIds) >>

\* what the inner sink last received: the logger and the context of the call,
\* the level, and the attributes ContextHandler.Handle appended to the record
Record(h, c, level, attrs) == [h |-> h, ctx |-> c, level |-> level, attrs |-> attrs]
NoRecord == Record(0, 0, "", <<>>)

NumBound == Cardinality({i \in DOMAIN bound : bound[i].op # "none"})
NumRegistered == Cardinality({i \in DOMAIN bound : i > 1 /\ bound[i].op = "none"})

\* ------------------------------------------------------------ inputs
\* the descriptors the application registers (TestLogger_WithContextAttrs)
Descs ==
    { Context("key1", Str("defaultValue"), "nil", "nil"),
      Context("key1", Nil, "GetFn", "nil"),
      Context("key1", Str("defaultValue"), "GetFn", "nil"),
      Context("key1", Str("defaultValue"), "GetFn", "custom"),
      Context("", Str("defaultValue"), "GetFn", "nil") }

\* what the application stores under ctxKey1
CtxValues == {Str("value1"), Str("ignored"), IntVal}

LogLevels == {"DEBUG", "INFO"}

Ctxs == held \cup {Background}
Loggers == DOMAIN handlers

\* -------------------------------------------------------------- Init
Init ==
    /\ ctxs = <<>>
    /\ held = {}
    /\ logIdGenerator = [kind |-> "randGen", cnt |-> 0]
    /\ handlers = <<NewLoggerProvider>>
    /\ provider = 1
    /\ logLevel = "INFO"
    /\ bound = <<NotBound>>
    /\ made = <<>>
    /\ sink = NoRecord
    /\ foreignIds = FALSE
    /\ panicked = FALSE
    /\ NoSinks

\* ----------------------------------------------------------- actions
\* SetLogIdGenerator(gen) with a new generator of the given kind
SetLogIdGenerator(kind) ==
    /\ ~panicked
    /\ logIdGenerator' = [kind |-> kind, cnt |-> 0]
    /\ foreignIds' = (foreignIds \/ logIdGenerator.cnt > 0)
    /\ UNCHANGED <<ctxs, held, handlers, provider, logLevel, bound, made, sink, panicked>>
    /\ UNCHANGED aux

\* SetLogLevel(level)
SetLogLevel(level) ==
    /\ ~panicked
    /\ logLevel' = level
    /\ UNCHANGED <<ctxs, held, logIdGenerator, handlers, provider, bound, made, sink,
                   foreignIds, panicked>>
    /\ UNCHANGED aux

\* the application's own context.WithValue(c, ctxKey1{}, v); at most cap nodes
AppWithValue(c, v, cap) ==
    /\ ~panicked
    /\ Len(ctxs) < cap
    /\ LET r == WithValue(ctxs, c, ctxKey1, v)
       IN  /\ ctxs' = r.cs
           /\ held' = held \cup {r.c}
           /\ made' = Append(made, Made("WithValue", c, Nil, NoGen, FALSE))
    /\ UNCHANGED <<logIdGenerator, handlers, provider, logLevel, bound, sink, foreignIds,
                   panicked>>
    /\ UNCHANGED aux

\* cslog.WithLogContext(c); at most cap nodes
CallWithLogContext(c, cap) ==
    /\ ~panicked
    /\ Len(ctxs) < cap
    /\ \E id \in NewIDs(logIdGenerator) :
         LET r == WithLogContext(ctxs, c, id)
         IN  /\ ctxs' = r.cs
             /\ held' = held \cup {r.c}
             /\ made' = Append(made,
                               Made("WithLogContext", c, id, logIdGenerator, ~foreignIds))
    /\ logIdGenerator' = AfterNewID(logIdGenerator)
    /\ UNCHANGED <<handlers, provider, logLevel, bound, sink, foreignIds, panicked>>
    /\ UNCHANGED aux

\* cslog.WithChildLogContext(c); at most cap nodes
CallWithChildLogContext(c, cap) ==
    /\ ~panicked
    /\ Len(ctxs) + 1 < cap
    /\ \E id \in NewIDs(logIdGenerator) :
         LET r == WithChildLogContext(ctxs, c, id)
         IN  /\ ctxs' = r.cs
             /\ held' = held \cup {r.c}
             /\ made' = made \o MadeChild(c, id, logIdGenerator)
    /\ logIdGenerator' = AfterNewID(logIdGenerator)
    /\ UNCHANGED <<handlers, provider, logLevel, bound, sink, foreignIds, panicked>>
    /\ UNCHANGED aux

\* LoggerProvider.AddContextAttrs(d) on the default provider
AddContextAttrs(d) ==
    /\ ~panicked
    /\ NumRegistered < MaxRegistered
    /\ handlers' = Append(handlers, WithContextAttrs(handlers[provider], <<d>>))
    /\ bound' = Append(bound, NotBound)
    /\ provider' = Len(handlers) + 1
    /\ UNCHANGED <<ctxs, held, logIdGenerator, logLevel, made, sink, foreignIds, panicked>>
    /\ UNCHANGED aux

\* Logger.WithContextAttrs(d) on logger l
CallWithContextAttrs(l, d) ==
    /\ ~panicked
    /\ NumRegistered < MaxRegistered
    /\ handlers' = Append(handlers, WithContextAttrs(handlers[l], <<d>>))
    /\ bound' = Append(bound, NotBound)
    /\ UNCHANGED <<ctxs, held, logIdGenerator, provider, logLevel, made, sink, foreignIds,
                   panicked>>
    /\ UNCHANGED aux

\* Logger.WithContext(c) on logger l; at most cap nodes and capBound bound loggers
CallLoggerWithContext(l, c, cap, capBound) ==
    /\ ~panicked
    /\ NumBound < capBound
    /\ \E id \in NewIDs(logIdGenerator) :
         LET r == LoggerWithContext(handlers[l], ctxs, c, id)
             drawn == IF r.drew THEN <<id>> ELSE <<>>
         IN  /\ Len(r.cs) <= cap
             /\ ctxs' = r.cs
             /\ made' = IF r.drew
                        THEN Append(made,
                                 Made("WithLogContext", c, id, logIdGenerator, ~foreignIds))
                        ELSE made
             /\ logIdGenerator' = IF r.drew THEN AfterNewID(logIdGenerator) ELSE logIdGenerator
             /\ IF r.panic
                THEN /\ panicked' = TRUE
                     /\ UNCHANGED <<held, handlers, bound>>
                ELSE /\ held' = held \cup {r.newCtx}
                     /\ handlers' = Append(handlers, r.h)
                     /\ bound' = Append(bound,
                            [op |-> "WithContext", recv |-> l, ctx |-> c, inner |-> c,
                             newCtx |-> r.newCtx, drawn |-> drawn])
                     /\ UNCHANGED panicked
    /\ UNCHANGED <<provider, logLevel, sink, foreignIds>>
    /\ UNCHANGED aux

\* Logger.WithChildContext(c) on logger l; at most cap nodes and capBound
\* bound loggers
CallLoggerWithChildContext(l, c, cap, capBound) ==
    /\ ~panicked
    /\ NumBound < capBound
    /\ \E id1 \in NewIDs(logIdGenerator), id2 \in NewIDs(AfterNewID(logIdGenerator)) :
         LET ch == WithChildLogContext(ctxs, c, id1)
             r == LoggerWithContext(handlers[l], ch.cs, ch.c, id2)
             drawn == IF r.drew THEN <<id1, id2>> ELSE <<id1>>
         IN  /\ Len(r.cs) <= cap
             /\ ctxs' = r.cs
             /\ made' = made \o MadeChild(c, id1, logIdGenerator) \o
                        (IF r.drew
                         THEN <<Made("WithLogContext", ch.c, id2,
                                     AfterNewID(logIdGenerator), ~foreignIds)>>
                         ELSE <<>>)
             /\ logIdGenerator' = IF r.drew THEN AfterNewID(AfterNewID(logIdGenerator))
                                  ELSE AfterNewID(logIdGenerator)
             /\ IF r.panic
                THEN /\ panicked' = TRUE
                     /\ UNCHANGED <<held, handlers, bound>>
                ELSE /\ held' = held \cup {r.newCtx}
                     /\ handlers' = Append(handlers, r.h)
                     /\ bound' = Append(bound,
                            [op |-> "WithChildContext", recv |-> l, ctx |-> c, inner |-> ch.c,
                             newCtx |-> r.newCtx, drawn |-> drawn])
                     /\ UNCHANGED panicked
    /\ UNCHANGED <<provider, logLevel, sink, foreignIds>>
    /\ UNCHANGED aux

\* Logger.HandleLog(c, level, ...) on logger l; the entry points without a
\* context pass context.Background()
HandleLog(l, c, level) ==
    /\ ~panicked
    /\ IF Enabled(logLevel, level)
       THEN sink' = Record(l, c, level, Handle(handlers[l].attrs, ctxs, c))
       ELSE UNCHANGED sink
    /\ UNCHANGED <<ctxs, held, logIdGenerator, handlers, provider, logLevel, bound, made,
                   foreignIds, panicked>>
    /\ UNCHANGED aux

\* ------------------------------------------------- specifications
\* Lineage: the counting generator is installed, then fresh and child binds.
NextLineage ==
    \/ SetLogIdGenerator("CountUpIDGen")
    \/ \E c \in Ctxs : CallWithLogContext(c, MaxLineage)
    \/ \E c \in Ctxs : CallWithChildLogContext(c, MaxLineage)

SpecLineage == Init /\ [][NextLineage]_vars

\* Context binding: either generator, fresh and child binds, Bind and BindChild.
NextCtx ==
    \/ \E kind \in GenKinds : SetLogIdGenerator(kind)
    \/ \E c \in Ctxs : CallWithLogContext(c, MaxCtx)
    \/ \E c \in Ctxs : CallWithChildLogContext(c, MaxCtx)
    \/ \E l \in Loggers, c \in Ctxs : CallLoggerWithContext(l, c, MaxCtx, MaxBound)
    \/ \E l \in Loggers, c \in Ctxs : CallLoggerWithChildContext(l, c, MaxCtx, MaxBound)

SpecCtx == Init /\ [][NextCtx]_vars

\* Lineage in the output: binds and logging, under either generator.
NextBind ==
    \/ NextCtx
    \/ \E l \in Loggers, c \in Ctxs, level \in LogLevels : HandleLog(l, c, level)

SpecBind == Init /\ [][NextBind]_vars

\* Bind, BindChild and logging only, with room for two bound loggers.
NextChild ==
    \/ SetLogIdGenerator("CountUpIDGen")
    \/ \E l \in Loggers, c \in Ctxs : CallLoggerWithContext(l, c, MaxChildCtx, MaxChildBound)
    \/ \E l \in Loggers, c \in Ctxs : CallLoggerWithChildContext(l, c, MaxChildCtx, MaxChildBound)
    \/ \E l \in Loggers, c \in Ctxs, level \in LogLevels : HandleLog(l, c, level)

SpecChild == Init /\ [][NextChild]_vars

\* the state after testutil.SetIDGen on a fresh process
InitCounting ==
    /\ ctxs = <<>>
    /\ held = {}
    /\ logIdGenerator = [kind |-> "CountUpIDGen", cnt |-> 0]
    /\ handlers = <<NewLoggerProvider>>
    /\ provider = 1
    /\ logLevel = "INFO"
    /\ bound = <<NotBound>>
    /\ made = <<>>
    /\ sink = NoRecord
    /\ foreignIds = FALSE
    /\ panicked = FALSE
    /\ NoSinks

\* Registered descriptors: registration, application values, Bind, logging.
NextAttrs ==
    \/ \E d \in Descs : AddContextAttrs(d)
    \/ \E c \in Ctxs, v \in CtxValues : AppWithValue(c, v, MaxCtx)
    \/ \E l \in Loggers, c \in Ctxs : CallLoggerWithContext(l, c, MaxCtx, MaxBound)
    \/ \E l \in Loggers, c \in Ctxs, level \in LogLevels : HandleLog(l, c, level)

SpecAttrs == InitCounting /\ [][NextAttrs]_vars

\* the application's own SetLogID(c, nil); at most cap nodes
AppSetLogIDNil(c, cap) ==
    /\ ~panicked
    /\ Len(ctxs) < cap
    /\ LET r == SetLogID(ctxs, c, Nil)
       IN  /\ ctxs' = r.cs
           /\ held' = held \cup {r.c}
           /\ made' = Append(made, Made("SetLogID", c, Nil, NoGen, FALSE))
    /\ UNCHANGED <<logIdGenerator, handlers, provider, logLevel, bound, sink, foreignIds,
                   panicked>>
    /\ UNCHANGED aux

\* what the application stores under ctxKey1 where a string is expected
TypedValues == {Str("value1"), IntVal, Nil}

\* Stored types: values of any type and nil under ctxKey1, nil in the id
\* slots, registration, binds and logging.
NextTypes ==
    \/ \E d \in Descs : AddContextAttrs(d)
    \/ \E c \in Ctxs, v \in TypedValues : AppWithValue(c, v, MaxCtx)
    \/ \E c \in Ctxs : AppSetLogIDNil(c, MaxCtx)
    \/ \E c \in Ctxs : CallWithChildLogContext(c, MaxCtx)
    \/ \E l \in Loggers, c \in Ctxs : CallLoggerWithContext(l, c, MaxCtx, MaxBound)
    \/ \E l \in Loggers, c \in Ctxs : HandleLog(l, c, "INFO")

SpecTypes == InitCounting /\ [][NextTypes]_vars

\* Siblings: the README's example under the counting generator: fresh binds,
\* child binds and logging through the provider's logger.
NextSiblings ==
    \/ \E c \in Ctxs : CallWithLogContext(c, MaxLineage)
    \/ \E c \in Ctxs : CallWithChildLogContext(c, MaxLineage)
    \/ \E c \in Ctxs : HandleLog(provider, c, "INFO")

SpecSiblings == InitCounting /\ [][NextSiblings]_vars

\* the descriptors Context can build over key1 and the empty key
PureDescs ==
    { Context(key, default, getFn, setFn) :
        key \in {"key1", ""}, default \in {Nil, Str("defaultValue")},
        getFn \in {"nil", "GetFn"}, setFn \in SetFns }

\* NewContextHandler(ih) with one descriptor added by AddContextAttr, and a
\* context that is Background or one context.WithValue(ctxKey1{}, v) on it
InitPure ==
    /\ \E v \in CtxValues \cup {Nil, Str("group")} :
         /\ ctxs = IF v = Nil THEN <<>>
                   ELSE <<[parent |-> Background, key |-> ctxKey1, val |-> v]>>
         /\ made = IF v = Nil THEN <<>>
                   ELSE <<Made("WithValue", Background, Nil, NoGen, FALSE)>>
    /\ held = DOMAIN ctxs
    /\ logIdGenerator = [kind |-> "randGen", cnt |-> 0]
    /\ \E d \in PureDescs : handlers = <<[attrs |-> <<d>>]>>
    /\ provider = 1
    /\ logLevel = "INFO"
    /\ bound = <<NotBound>>
    /\ sink = NoRecord
    /\ foreignIds = FALSE
    /\ panicked = FALSE
    /\ NoSinks

\* Attribute resolution alone: one descriptor, one context, one logging call.
NextPure ==
    \E l \in Loggers, c \in Ctxs, level \in LogLevels : HandleLog(l, c, level)

SpecPure == InitPure /\ [][NextPure]_vars

\* ------------------------------------- handler.go on Go slices
\* the zero ContextAttr, which fills the slots of an array not yet written
ZeroAttr == Context("", Nil, "nil", "nil")

\* the elements slice s shows of the arrays as
Elems(as, s) == IF s.arr = 0 THEN <<>> ELSE SubSeq(as[s.arr].elems, 1, s.len)

\* cap(s)
Cap(as, s) == IF s.arr = 0 THEN 0 ELSE as[s.arr].cap

\* a fresh array of capacity cap that starts with xs
NewArray(xs, cap) ==
    [cap |-> cap, elems |-> xs \o [i \in 1..(cap - Len(xs)) |-> ZeroAttr]]

\* the capacity append gives the array it allocates (runtime growslice)
GrowCap(old, needed) == IF needed > 2 * old THEN needed ELSE 2 * old

\* append(s, xs...): the arrays after the call and the slice returned; the
\* elements are written into the array of s when its capacity allows
AppendSlice(as, s, xs) ==
    IF Len(xs) = 0 THEN [as |-> as, s |-> s]
    ELSE IF s.len + Len(xs) <= Cap(as, s)
    THEN [as |-> [as EXCEPT ![s.arr].elems =
                     [i \in DOMAIN @ |->
                         IF i > s.len /\ i <= s.len + Len(xs) THEN xs[i - s.len] ELSE @[i]]],
          s |-> [arr |-> s.arr, len |-> s.len + Len(xs)]]
    ELSE [as |-> Append(as, NewArray(Elems(as, s) \o xs,
                                     GrowCap(Cap(as, s), s.len + Len(xs)))),
          s |-> [arr |-> Len(as) + 1, len |-> s.len + Len(xs)]]

\* a ContextHandler object: the derivations applied to its inner handler and
\* its attrs slice; from, by and own record the object it was derived from,
\* the derivation, and the descriptors it was given at derivation and by
\* AddContextAttr calls on itself
Object(ih, attrs, from, by, own) ==
    [ih |-> ih, attrs |-> attrs, from |-> from, by |-> by, own |-> own]

\* NewContextHandler(sHandler)
NewContextHandler == Object(<<>>, NilSlice, 0, "NewContextHandler", <<>>)

\* a clone that hands out the receiver's own slice
ChCloneShared(as, h) == [as |-> as, s |-> h.attrs]

\* ContextHandler.clone on object h: the arrays after the copy and its slice
ChClone(as, h) == AppendSlice(as, NilSlice, Elems(as, h.attrs))

\* ContextHandler.AddContextAttr on object h: the arrays and the slice h
\* holds after the call
ChAddContextAttr(as, h, attr) == AppendSlice(as, h.attrs, <<attr>>)

\* ContextHandler.SetContextAttrs on object h with the slice attrs (the copy
\* its clone made is dropped)
ChSetContextAttrs(as, h, attrs) == [as |-> as, s |-> attrs]

\* ContextHandler.WithContextAttrs on object h
ChWithContextAttrs(as, h, xs) ==
    LET F[i \in 0..Len(xs)] ==
            IF i = 0 THEN ChClone(as, h)
            ELSE AppendSlice(F[i - 1].as, F[i - 1].s, <<xs[i]>>)
    IN  F[Len(xs)]

\* the descriptors object i resolves
AttrsOf(as, os, i) == Elems(as, os[i].attrs)

\* the descriptors handed to the ContextHandler objects
SinkDescs ==
    { Context("key1", Str("defaultValue"), "nil", "nil"),
      Context("key1", Nil, "GetFn", "nil") }

\* the descriptor the caller's list starts with
ListDesc == Context("key1", Str("defaultValue"), "GetFn", "nil")

\* a call on ContextHandler object h (0 when the call has no receiver)
Probe(op, h) == [op |-> op, h |-> h]

\* one ContextHandler from NewContextHandler, and a caller's list of one
\* descriptor built with or without spare capacity
InitSinks ==
    /\ ctxs = <<>>
    /\ held = {}
    /\ logIdGenerator = [kind |-> "randGen", cnt |-> 0]
    /\ handlers = <<NewLoggerProvider>>
    /\ provider = 1
    /\ logLevel = "INFO"
    /\ bound = <<NotBound>>
    /\ made = <<>>
    /\ sink = NoRecord
    /\ foreignIds = FALSE
    /\ panicked = FALSE
    /\ \E cap \in 1..2 : arrays = <<NewArray(<<ListDesc>>, cap)>>
    /\ list = [arr |-> 1, len |-> 1]
    /\ chs = <<NewContextHandler>>
    /\ probe = NoProbe
    /\ NoCalls

rest == <<ctxs, held, logIdGenerator, handlers, provider, logLevel, bound, made, sink,
          foreignIds, panicked, conc>>

\* h.WithContextAttrs(d) on object h
SinkWithContextAttrs(h, d) ==
    /\ Len(chs) < MaxSinks
    /\ chs[h].attrs.len < MaxSlots
    /\ LET r == ChWithContextAttrs(arrays, chs[h], <<d>>)
       IN  /\ arrays' = r.as
           /\ chs' = Append(chs, Object(chs[h].ih, r.s, h, "WithContextAttrs",
                                        AttrsOf(arrays, chs, h) \o <<d>>))
    /\ probe' = Probe("WithContextAttrs", h)
    /\ UNCHANGED <<list, rest>>

\* h.WithAttrs(as) or h.WithGroup(name) on object h
SinkWithAttrsOrGroup(h, by) ==
    /\ Len(chs) < MaxSinks
    /\ LET r == ChClone(arrays, chs[h])
       IN  /\ arrays' = r.as
           /\ chs' = Append(chs, Object(Append(chs[h].ih, by), r.s, h, by,
                                        AttrsOf(arrays, chs, h)))
    /\ probe' = Probe(by, h)
    /\ UNCHANGED <<list, rest>>

\* h.SetContextAttrs(list) on object h with the caller's list
SinkSetContextAttrs(h) ==
    /\ Len(chs) < MaxSinks
    /\ LET r == ChSetContextAttrs(arrays, chs[h], list)
       IN  /\ arrays' = r.as
           /\ chs' = Append(chs, Object(chs[h].ih, r.s, h, "SetContextAttrs",
                                        Elems(arrays, list)))
    /\ probe' = Probe("SetContextAttrs", h)
    /\ UNCHANGED <<list, rest>>

\* h.AddContextAttr(d) on object h: h itself is changed, nothing is returned
SinkAddContextAttr(h, d) ==
    /\ chs[h].attrs.len < MaxSlots
    /\ LET r == ChAddContextAttr(arrays, chs[h], d)
       IN  /\ arrays' = r.as
           /\ chs' = [chs EXCEPT ![h].attrs = r.s, ![h].own = Append(@, d)]
    /\ probe' = Probe("AddContextAttr", h)
    /\ UNCHANGED <<list, rest>>

\* the caller's list = append(list, d)
CallerAppend(d) ==
    /\ list.len < MaxSlots
    /\ LET r == AppendSlice(arrays, list, <<d>>)
       IN  /\ arrays' = r.as
           /\ list' = r.s
    /\ probe' = Probe("append", 0)
    /\ UNCHANGED <<chs, rest>>

\* The ContextHandler objects: every derivation, AddContextAttr, and the
\* caller appending to its list.
NextSinks ==
    \/ \E h \in DOMAIN chs, d \in SinkDescs : SinkWithContextAttrs(h, d)
    \/ \E h \in DOMAIN chs, by \in {"WithAttrs", "WithGroup"} : SinkWithAttrsOrGroup(h, by)
    \/ \E h \in DOMAIN chs : SinkSetContextAttrs(h)
    \/ \E h \in DOMAIN chs, d \in SinkDescs : SinkAddContextAttr(h, d)
    \/ \E d \in SinkDescs : CallerAppend(d)

SpecSinks == InitSinks /\ [][NextSinks]_vars

\* --------------------------------------- logger.go: the entry points
Range(f) == {f[i] : i \in DOMAIN f}

\* the logging methods of Logger
FixedLevel ==
    [Debug |-> "DEBUG", DebugContext |-> "DEBUG", Info |-> "INFO", InfoContext |-> "INFO",
     Warn |-> "WARN", WarnContext |-> "WARN", Error |-> "ERROR", ErrorContext |-> "ERROR"]
NoContextEntries == {"Debug", "Info", "Warn", "Error"}
LevelEntries == {"Log", "LogAttrs", "HandleLog", "HandleLogAttrs"}
AttrsEntries == {"LogAttrs", "HandleLogAttrs"}
Entries == DOMAIN FixedLevel \cup LevelEntries

\* the level and the context an entry point passes on
EntryLevel(entry, level) == IF entry \in DOMAIN FixedLevel THEN FixedLevel[entry] ELSE level
EntryCtx(entry, c) == IF entry \in NoContextEntries THEN Background ELSE c

\* slog.Record.Add(args...): key-value pairs become attributes, a value
\* left without a key gets the key !BADKEY
RECURSIVE ArgsToAttrs(_)
ArgsToAttrs(args) ==
    IF Len(args) = 0 THEN <<>>
    ELSE IF Len(args) = 1 THEN <<MkAttr("!BADKEY", Str(args[1]))>>
    ELSE <<MkAttr(args[1], Str(args[2]))>> \o ArgsToAttrs(SubSeq(args, 3, Len(args)))

\* the args a call gives: none, a pair, a value alone
CallArgs == {<<>>, <<"k", "v">>, <<"v">>}

\* the attributes of the record before Handle: r.Add(args...) in HandleLog,
\* r.AddAttrs(attrs...) in HandleLogAttrs
RecordAttrs(entry, args) ==
    IF entry \in AttrsEntries
    THEN (IF Len(args) = 2 THEN <<MkAttr(args[1], Str(args[2]))>> ELSE <<>>)
    ELSE ArgsToAttrs(args)

\* how many resolvers and formatters ContextHandler.Handle invokes
Invoked(attrs) ==
    [getFn |-> Cardinality({i \in DOMAIN attrs : attrs[i].key # "" /\ attrs[i].getFn # "nil"}),
     setFn |-> Cardinality({i \in DOMAIN attrs : attrs[i].key # ""})]

\* the outcome of one call: what the inner handler's Enabled returned,
\* whether its Handle ran and on which attributes, and the resolvers and
\* formatters invoked
Outcome(enabled, handled, getFn, setFn, attrs) ==
    [enabled |-> enabled, handled |-> handled, getFn |-> getFn, setFn |-> setFn,
     attrs |-> attrs]

\* a HandleLog that builds and augments the record before it tests Enabled
LoggerHandleLogResolveFirst(attrs, cs, c, threshold, level, own) ==
    Outcome(Enabled(threshold, level), Enabled(threshold, level),
            Invoked(attrs).getFn, Invoked(attrs).setFn,
            IF Enabled(threshold, level) THEN own \o Handle(attrs, cs, c) ELSE <<>>)

\* Logger.HandleLog and Logger.HandleLogAttrs on a record with attributes own
LoggerHandleLog(attrs, cs, c, threshold, level, own) ==
    IF ~Enabled(threshold, level) THEN Outcome(FALSE, FALSE, 0, 0, <<>>)
    ELSE Outcome(TRUE, TRUE, Invoked(attrs).getFn, Invoked(attrs).setFn,
                 own \o Handle(attrs, cs, c))

\* a call of entry point entry on logger l and its outcome
Call(entry, l, c, level, own, out) ==
    [op |-> entry, h |-> l, ctx |-> c, level |-> level, own |-> own, out |-> out]

\* one call of a logging method of logger l
LogEntry(entry, l, c, level, args) ==
    /\ ~panicked
    /\ LET lv == EntryLevel(entry, level)
           cx == EntryCtx(entry, c)
           own == RecordAttrs(entry, args)
           out == LoggerHandleLog(handlers[l].attrs, ctxs, cx, logLevel, lv, own)
       IN  /\ probe' = Call(entry, l, cx, lv, own, out)
           /\ sink' = IF out.handled THEN Record(l, cx, lv, out.attrs) ELSE sink
    /\ UNCHANGED <<ctxs, held, logIdGenerator, handlers, provider, logLevel, bound, made,
                   foreignIds, panicked, arrays, chs, list, conc>>

\* the descriptors of the handler the gated calls go through: resolver and
\* custom formatter, static default alone, empty key
GateDescs ==
    { Context("key1", Str("defaultValue"), "GetFn", "custom"),
      Context("key1", Str("defaultValue"), "nil", "nil"),
      Context("", Str("defaultValue"), "GetFn", "nil") }

\* NewLogger(ih).WithContextAttrs(d), and context.WithValue(ctx, ctxKey1{}, "value1")
InitGate ==
    /\ ctxs = <<[parent |-> Background, key |-> ctxKey1, val |-> Str("value1")]>>
    /\ made = <<Made("WithValue", Background, Nil, NoGen, FALSE)>>
    /\ held = {1}
    /\ logIdGenerator = [kind |-> "randGen", cnt |-> 0]
    /\ \E d \in GateDescs : handlers = <<WithContextAttrs(NewLoggerProvider, <<d>>)>>
    /\ provider = 1
    /\ logLevel = "INFO"
    /\ bound = <<NotBound>>
    /\ sink = NoRecord
    /\ foreignIds = FALSE
    /\ panicked = FALSE
    /\ NoSinks

\* Level gating: thresholds and every entry point.
NextGate ==
    \/ \E level \in Range(Levels) : SetLogLevel(level)
    \/ \E entry \in Entries, l \in Loggers, c \in Ctxs, level \in LogLevels,
          args \in CallArgs : LogEntry(entry, l, c, level, args)

SpecGate == InitGate /\ [][NextGate]_vars

\* descriptors with keys of their own
OrderDescs ==
    { Context("key1", Str("defaultValue"), "GetFn", "nil"),
      Context("key2", Nil, "GetFn", "nil"),
      Context("key3", Str("default3"), "GetFn", "nil") }

\* the state after testutil.SetIDGen, AddContextAttrs(d1, d2) with two
\* descriptors of different keys, and context.WithValue(ctx, ctxKey1{}, "value1")
InitOrder ==
    /\ ctxs = <<[parent |-> Background, key |-> ctxKey1, val |-> Str("value1")]>>
    /\ made = <<Made("WithValue", Background, Nil, NoGen, FALSE)>>
    /\ held = {1}
    /\ logIdGenerator = [kind |-> "CountUpIDGen", cnt |-> 0]
    /\ \E d1, d2 \in OrderDescs :
         /\ d1.key # d2.key
         /\ handlers = <<NewLoggerProvider, WithContextAttrs(NewLoggerProvider, <<d1, d2>>)>>
    /\ provider = 2
    /\ logLevel = "INFO"
    /\ bound = <<NotBound, NotBound>>
    /\ sink = NoRecord
    /\ foreignIds = FALSE
    /\ panicked = FALSE
    /\ NoSinks

\* Attribute order: child binds, Bind, and logging calls that give attributes
\* of their own.
NextOrder ==
    \/ \E c \in Ctxs : CallWithChildLogContext(c, MaxChildCtx)
    \/ \E c \in Ctxs : CallLoggerWithContext(provider, c, MaxChildCtx, MaxBound)
    \/ \E entry \in {"InfoContext", "LogAttrs"}, l \in Loggers, c \in Ctxs,
          args \in CallArgs : LogEntry(entry, l, c, "INFO", args)

SpecOrder == InitOrder /\ [][NextOrder]_vars

\* --------------------------------- logger.go on ContextHandler objects
\* a *Logger whose slog.Logger has the ContextHandler object h as handler,
\* and the absence of a Logger
Logger(h) == [t |-> "Logger", sl |-> h]
NoLogger == [t |-> "none", sl |-> 0]

\* a newLogger without its nil test
newLoggerUnchecked(h) == [panic |-> FALSE, logger |-> Logger(h)]

\* newLogger(h) with h a ContextHandler object or 0 for nil
newLogger(h) ==
    IF h = 0 THEN [panic |-> TRUE, logger |-> NoLogger]
    ELSE [panic |-> FALSE, logger |-> Logger(h)]

\* a call on object h and the Logger it returned
LProbe(op, h, logger) == [op |-> op, h |-> h, logger |-> logger]

\* the capacity of a slice built by n appends to []ContextAttr{}
RECURSIVE BuiltCap(_)
BuiltCap(n) ==
    IF n = 0 THEN 0
    ELSE IF n <= BuiltCap(n - 1) THEN BuiltCap(n - 1)
    ELSE GrowCap(BuiltCap(n - 1), n)

\* the handler of NewLoggerProvider(innerHandler):
\* NewContextHandler(innerHandler).WithContextAttrs(logId, parentLogId)
ProviderHandler == ChWithContextAttrs(<<>>, NewContextHandler, NewLoggerProvider.attrs)

\* newDefaultProvider, with the counting generator installed
InitLoggers ==
    /\ ctxs = <<>>
    /\ held = {}
    /\ logIdGenerator = [kind |-> "CountUpIDGen", cnt |-> 0]
    /\ handlers = <<NewLoggerProvider>>
    /\ provider = 1
    /\ logLevel = "INFO"
    /\ bound = <<NotBound>>
    /\ made = <<>>
    /\ sink = NoRecord
    /\ foreignIds = FALSE
    /\ panicked = FALSE
    /\ arrays = ProviderHandler.as
    /\ list = NilSlice
    /\ chs = <<Object(<<>>, ProviderHandler.s, 0, "NewLoggerProvider", NewLoggerProvider.attrs)>>
    /\ probe = NoProbe
    /\ NoCalls

\* what the calls on ContextHandler objects leave alone besides the contexts
restL == <<handlers, logLevel, bound, made, sink, foreignIds, conc>>

\* the step of a call that made object o with arrays as and passed it, as
\* handle h, to newLogger
Returned(op, recv, as, o, h) ==
    LET n == newLogger(h)
    IN  /\ arrays' = as
        /\ chs' = Append(chs, o)
        /\ panicked' = n.panic
        /\ probe' = LProbe(op, recv, n.logger)

\* LoggerProvider.AddContextAttrs(d): p.logger = p.logger.WithContextAttrs(d)
ProviderAddContextAttrs(d) ==
    /\ ~panicked
    /\ Len(chs) < MaxLoggers
    /\ LET r == ChWithContextAttrs(arrays, chs[provider], <<d>>)
       IN  Returned("AddContextAttrs", provider, r.as,
                    Object(chs[provider].ih, r.s, provider, "WithContextAttrs",
                           AttrsOf(arrays, chs, provider) \o <<d>>),
                    Len(chs) + 1)
    /\ provider' = Len(chs) + 1
    /\ UNCHANGED <<ctxs, held, logIdGenerator, list, restL>>

\* LoggerProvider.NewLogger()
ProviderNewLogger ==
    /\ ~panicked
    /\ Len(chs) < MaxLoggers
    /\ LET r == ChClone(arrays, chs[provider])
       IN  Returned("NewLogger", provider, r.as,
                    Object(chs[provider].ih, r.s, provider, "clone",
                           AttrsOf(arrays, chs, provider)),
                    Len(chs) + 1)
    /\ UNCHANGED <<ctxs, held, logIdGenerator, provider, list, restL>>

\* Logger.WithContextAttrs(d) on the logger of object l
LoggerWithContextAttrs(l, d) ==
    /\ ~panicked
    /\ Len(chs) < MaxLoggers
    /\ LET r == ChWithContextAttrs(arrays, chs[l], <<d>>)
       IN  Returned("WithContextAttrs", l, r.as,
                    Object(chs[l].ih, r.s, l, "WithContextAttrs",
                           AttrsOf(arrays, chs, l) \o <<d>>),
                    Len(chs) + 1)
    /\ UNCHANGED <<ctxs, held, logIdGenerator, provider, list, restL>>

\* a WithAttrs and WithGroup that hand back what the inner handler returns
\* instead of the clone
ChWithInner(by) == "ih." \o by

\* ContextHandler.WithAttrs and WithGroup return the clone c, a
\* *ContextHandler, as the slog.Handler made by that call
ChWith(by) == by

\* the handler object o is a *ContextHandler
IsContextHandler(o) == o.by \notin {"ih.WithAttrs", "ih.WithGroup"}

\* Logger.contextHandler() on the logger of object l: the type assertion
\* l.Handler().(*ContextHandler), panic("invalid Handler") when it fails
contextHandler(os, l) ==
    IF IsContextHandler(os[l]) THEN [panic |-> FALSE, h |-> l]
    ELSE [panic |-> TRUE, h |-> 0]

\* Logger.With(args...) and Logger.WithGroup(name) on the logger of object l:
\* slog hands back the same handler for no args and for the empty name, and
\* calls WithAttrs or WithGroup on it otherwise
LoggerWithOrGroup(l, by, empty) ==
    /\ ~panicked
    /\ IF empty
       THEN /\ probe' = LProbe(by, l, Logger(l))
            /\ UNCHANGED <<arrays, chs>>
       ELSE /\ Len(chs) < MaxLoggers
            /\ LET r == ChClone(arrays, chs[l])
               IN  /\ arrays' = r.as
                   /\ chs' = Append(chs, Object(Append(chs[l].ih, by), r.s, l, ChWith(by),
                                                AttrsOf(arrays, chs, l)))
            /\ probe' = LProbe(by, l, Logger(Len(chs) + 1))
    /\ UNCHANGED <<ctxs, held, logIdGenerator, provider, panicked, list, restL>>

\* Logger.WithContext(c) and, with child, Logger.WithChildContext(c) on the
\* logger of object l: Logger.WithContext builds newAttrs by appends and
\* hands it to SetContextAttrs
LoggerBind(l, c, child) ==
    /\ ~panicked
    /\ Len(chs) < MaxLoggers
    /\ LET g1 == logIdGenerator
           id1 == CHOOSE id \in NewIDs(g1) : TRUE
           ch == IF child THEN WithChildLogContext(ctxs, c, id1) ELSE [cs |-> ctxs, c |-> c]
           g2 == IF child THEN AfterNewID(g1) ELSE g1
           id2 == CHOOSE id \in NewIDs(g2) : TRUE
           r == LoggerWithContext([attrs |-> AttrsOf(arrays, chs, l)], ch.cs, ch.c, id2)
           newAttrs == r.h.attrs
       IN  /\ Len(r.cs) <= MaxCtx
           /\ ctxs' = r.cs
           /\ logIdGenerator' = IF r.drew THEN AfterNewID(g2) ELSE g2
           /\ IF r.panic
              THEN /\ panicked' = TRUE
                   /\ probe' = LProbe("WithContext", l, NoLogger)
                   /\ UNCHANGED <<held, arrays, chs>>
              ELSE /\ held' = held \cup {r.newCtx}
                   /\ Returned("WithContext", l,
                               Append(arrays, NewArray(newAttrs, BuiltCap(Len(newAttrs)))),
                               Object(chs[l].ih,
                                      [arr |-> Len(arrays) + 1, len |-> Len(newAttrs)],
                                      l, "SetContextAttrs", newAttrs),
                               Len(chs) + 1)
    /\ UNCHANGED <<provider, list, restL>>

\* LoggerProvider.NewLoggerWithContext(c) and, with child, NewLoggerWithChildContext(c)
ProviderNewLoggerWithContext(c, child) == LoggerBind(provider, c, child)

\* newLogger(h) itself, on an object or on nil
CallNewLogger(h) ==
    /\ ~panicked
    /\ LET n == newLogger(h)
       IN  /\ panicked' = n.panic
           /\ probe' = LProbe("newLogger", h, n.logger)
    /\ UNCHANGED <<ctxs, held, logIdGenerator, provider, arrays, chs, list, restL>>

\* Loggers and their provider: every constructor and derivation of Loggers.
NextLoggers ==
    \/ \E d \in SinkDescs : ProviderAddContextAttrs(d)
    \/ ProviderNewLogger
    \/ \E l \in DOMAIN chs, d \in SinkDescs : LoggerWithContextAttrs(l, d)
    \/ \E l \in DOMAIN chs, by \in {"WithAttrs", "WithGroup"}, empty \in BOOLEAN :
           LoggerWithOrGroup(l, by, empty)
    \/ \E c \in Ctxs, child \in BOOLEAN : ProviderNewLoggerWithContext(c, child)
    \/ \E h \in DOMAIN chs \cup {0} : CallNewLogger(h)

SpecLoggers == InitLoggers /\ [][NextLoggers]_vars

\* a method of the logger of object l that starts with l.contextHandler():
\* SetInnerHandler, NewLogger, WithContextAttrs, WithContext
CallContextHandler(l) ==
    /\ ~panicked
    /\ LET r == contextHandler(chs, l)
       IN  /\ panicked' = r.panic
           /\ probe' = LProbe("contextHandler", l, IF r.panic THEN NoLogger ELSE Logger(r.h))
    /\ UNCHANGED <<ctxs, held, logIdGenerator, provider, arrays, chs, list, restL>>

\* Chains of derivations: the constructors and derivations of Loggers, Bind
\* and BindChild on every Logger, and the calls of contextHandler().
NextChain ==
    \/ \E d \in SinkDescs : ProviderAddContextAttrs(d)
    \/ ProviderNewLogger
    \/ \E l \in DOMAIN chs, d \in SinkDescs : LoggerWithContextAttrs(l, d)
    \/ \E l \in DOMAIN chs, by \in {"WithAttrs", "WithGroup"}, empty \in BOOLEAN :
           LoggerWithOrGroup(l, by, empty)
    \/ \E l \in DOMAIN chs, c \in Ctxs, child \in BOOLEAN : LoggerBind(l, c, child)
    \/ \E l \in DOMAIN chs : CallContextHandler(l)

SpecChain == InitLoggers /\ [][NextChain]_vars

\* ------------------------------------ id_generator.go under goroutines
Goroutines == 1..MaxGoroutines

\* a goroutine outside NewID, with the id its last call returned
Idle(id) == [pc |-> "idle", id |-> id]
\* a goroutine inside randGen.NewID at the statement pc
At(pc, id) == [pc |-> pc, id |-> id]

\* the default generator: its embedded sync.Mutex (0 unlocked, else the
\* goroutine that holds it) and the goroutines inside randSource.Read
RandGen(mutex, readers) == [kind |-> "randGen", mutex |-> mutex, readers |-> readers]

\* a Lock that returns at once whoever holds the mutex
LockReturnsAlways(mutex) == TRUE

\* sync.Mutex.Lock returns only when the mutex is unlocked
LockReturns(mutex) == mutex = 0

\* the process after package initialisation, MaxGoroutines goroutines running
InitRandGen ==
    /\ ctxs = <<>>
    /\ held = {}
    /\ logIdGenerator = [kind |-> "randGen", cnt |-> 0]
    /\ handlers = <<NewLoggerProvider>>
    /\ provider = 1
    /\ logLevel = "INFO"
    /\ bound = <<NotBound>>
    /\ made = <<>>
    /\ sink = NoRecord
    /\ foreignIds = FALSE
    /\ panicked = FALSE
    /\ arrays = <<>>
    /\ chs = <<>>
    /\ list = NilSlice
    /\ probe = NoProbe
    /\ calls = [g \in Goroutines |-> Idle(Nil)]
    /\ shared = RandGen(0, {})

\* what a step of NewID leaves alone
restG == <<ctxs, held, handlers, provider, logLevel, bound, made, sink, foreignIds,
           panicked, arrays, chs, list, probe>>

\* the NewID calls started so far
Started == logIdGenerator.cnt + Cardinality({g \in Goroutines : calls[g].pc # "idle"})

\* goroutine g calls logIdGenerator.NewID()
NewIDCall(g) ==
    /\ calls[g].pc = "idle"
    /\ Started < MaxNewIDs
    /\ calls' = [calls EXCEPT ![g] = At("Lock", Nil)]
    /\ UNCHANGED <<logIdGenerator, shared, restG>>

\* r.Lock() returns in goroutine g
NewIDLock(g) ==
    /\ calls[g].pc = "Lock"
    /\ LockReturns(shared.mutex)
    /\ shared' = RandGen(g, shared.readers)
    /\ calls' = [calls EXCEPT ![g] = At("Read", Nil)]
    /\ UNCHANGED <<logIdGenerator, restG>>

\* id := ByteLogID{}; goroutine g enters r.randSource.Read(id[:])
NewIDReadBegin(g) ==
    /\ calls[g].pc = "Read"
    /\ shared' = RandGen(shared.mutex, shared.readers \cup {g})
    /\ calls' = [calls EXCEPT ![g] = At("Reading", ByteLogID(ZeroBytes))]
    /\ UNCHANGED <<logIdGenerator, restG>>

\* r.randSource.Read(id[:]) returns in goroutine g
NewIDReadEnd(g) ==
    /\ calls[g].pc = "Reading"
    /\ \E id \in NewIDs(logIdGenerator) : calls' = [calls EXCEPT ![g] = At("Unlock", id)]
    /\ shared' = RandGen(shared.mutex, shared.readers \ {g})
    /\ logIdGenerator' = AfterNewID(logIdGenerator)
    /\ UNCHANGED restG

\* return id: the deferred r.Unlock() runs and NewID returns in goroutine g
NewIDReturn(g) ==
    /\ calls[g].pc = "Unlock"
    /\ shared' = RandGen(0, shared.readers)
    /\ calls' = [calls EXCEPT ![g] = Idle(calls[g].id)]
    /\ UNCHANGED <<logIdGenerator, restG>>

\* a step NewID takes once it was called
NewIDStep(g) ==
    NewIDLock(g) \/ NewIDReadBegin(g) \/ NewIDReadEnd(g) \/ NewIDReturn(g)

\* Concurrent NewID calls on the default generator.
NextRandGen ==
    \/ \E g \in Goroutines : NewIDCall(g)
    \/ \E g \in Goroutines : NewIDLock(g)
    \/ \E g \in Goroutines : NewIDReadBegin(g)
    \/ \E g \in Goroutines : NewIDReadEnd(g)
    \/ \E g \in Goroutines : NewIDReturn(g)

\* every goroutine keeps being scheduled, and a Lock that can return does
SpecRandGen ==
    /\ InitRandGen
    /\ [][NextRandGen]_vars
    /\ \A g \in Goroutines : WF_vars(NewIDStep(g))

\* --------------------------------------- handler.go under goroutines
\* the frame of one ContextHandler.Handle call: the statement it is at, the
\* receiver h, the arguments ctx and r (own: r as the caller built it), the
\* position i of the range loop, what the call did so far, in order, and
\* the error it returned; n numbers the calls
Frame(pc, n, h, ctx, own, i, r, trace, ret) ==
    [pc |-> pc, n |-> n, h |-> h, ctx |-> ctx, own |-> own, i |-> i, r |-> r,
     trace |-> trace, ret |-> ret]

NoFrame == Frame("idle", 0, 0, 0, <<>>, 0, <<>>, <<>>, Nil)

\* what a call does: a.Attr(ctx) on descriptor i, h.ih.Handle entered and
\* returned, Handle returned
Did(ev, i) == [ev |-> ev, i |-> i]

\* the Handle call of frame f as its caller made it
CallOf(f) == [n |-> f.n, h |-> f.h, ctx |-> f.ctx, own |-> f.own]

\* one invocation of the inner handler's Handle: the call that made it, the
\* context and the record it was given, and the error it returned
IhHandle(by, ctx, r, err) == [by |-> by, ctx |-> ctx, r |-> r, err |-> err]

\* the inner handler the goroutines share: its invocations in order, and
\* the number of Handle calls started
Inner(invoked, started) == [kind |-> "ih", invoked |-> invoked, started |-> started]

\* the errors an inner handler's Handle returns
IhErrors == {Nil, Str("write error")}

\* the records the callers build: slog.NewRecord and r.Add(args...)
OwnAttrs == {<<>>, <<MkAttr("key", Str("value"))>>}

\* the descriptors of the handler the goroutines log through
HandleDescs ==
    { Context("key1", Nil, "GetFn", "nil"),
      Context("key2", Str("defaultValue"), "GetFn", "nil"),
      Context("key3", Str("default3"), "nil", "nil") }

\* a Handle that resolves against the context of goroutine 1's call while
\* that call is running
HandleCtxOfFirst(cl, g) ==
    IF cl[1].pc \in {"range", "ih.Handle"} THEN cl[1].ctx ELSE cl[g].ctx

\* the ctx parameter of goroutine g's Handle call
HandleCtx(cl, g) == cl[g].ctx

\* a loop that can be left before the last descriptor
RangeDoneEarly(i, attrs) == TRUE

\* for _, a := range h.attrs is over
RangeDone(i, attrs) == i > Len(attrs)

\* a Handle that drops the inner handler's error
HandleReturnsNil(err) == Nil

\* return h.ih.Handle(ctx, r)
HandleReturns(err) == err

\* NewLogger(ih).WithContextAttrs(ds...), two contexts with a value under
\* ctxKey1{}, and MaxGoroutines goroutines that share the logger
InitHandle ==
    /\ ctxs = <<[parent |-> Background, key |-> ctxKey1, val |-> Str("value1")],
                [parent |-> Background, key |-> ctxKey1, val |-> Str("ignored")]>>
    /\ made = <<Made("WithValue", Background, Nil, NoGen, FALSE),
                Made("WithValue", Background, Nil, NoGen, FALSE)>>
    /\ held = {1, 2}
    /\ logIdGenerator = [kind |-> "randGen", cnt |-> 0]
    /\ \E k \in 0..2 : \E ds \in [1..k -> HandleDescs] :
           handlers = <<[attrs |-> ds]>>
    /\ provider = 1
    /\ logLevel = "INFO"
    /\ bound = <<NotBound>>
    /\ sink = NoRecord
    /\ foreignIds = FALSE
    /\ panicked = FALSE
    /\ arrays = <<>>
    /\ chs = <<>>
    /\ list = NilSlice
    /\ probe = NoProbe
    /\ calls = [g \in Goroutines |-> NoFrame]
    /\ shared = Inner(<<>>, 0)

\* what a step of Handle leaves alone
restH == <<ctxs, held, logIdGenerator, handlers, provider, logLevel, bound, made,
           foreignIds, panicked, arrays, chs, list, probe>>

\* goroutine g calls l.Handler().Handle(ctx, r) with the record it built
HandleCall(g, l, c, own) ==
    /\ calls[g].pc \in {"idle", "returned"}
    /\ shared.started < MaxHandles
    /\ shared' = Inner(shared.invoked, shared.started + 1)
    /\ calls' = [calls EXCEPT ![g] =
                   Frame("range", shared.started + 1, l, c, own, 1, own, <<>>, Nil)]
    /\ UNCHANGED <<sink, restH>>

\* one iteration of the loop: a.Attr(ctx), and r.AddAttrs(attr) when ok
HandleRange(g) ==
    LET f == calls[g]
        attrs == handlers[f.h].attrs
    IN  /\ f.pc = "range"
        /\ f.i <= Len(attrs)
        /\ LET a == Attr(attrs[f.i], ctxs, HandleCtx(calls, g))
           IN  calls' = [calls EXCEPT ![g] =
                           [f EXCEPT !.i = f.i + 1,
                                     !.r = IF a.ok THEN Append(f.r, a.attr) ELSE f.r,
                                     !.trace = Append(f.trace, Did("Attr", f.i))]]
        /\ UNCHANGED <<shared, sink, restH>>

\* the loop is over: goroutine g enters h.ih.Handle(ctx, r)
HandleInner(g) ==
    LET f == calls[g]
    IN  /\ f.pc = "range"
        /\ RangeDone(f.i, handlers[f.h].attrs)
        /\ shared' = Inner(Append(shared.invoked, IhHandle(CallOf(f), f.ctx, f.r, Nil)),
                           shared.started)
        /\ sink' = Record(f.h, f.ctx, "INFO", f.r)
        /\ calls' = [calls EXCEPT ![g] =
                       [f EXCEPT !.pc = "ih.Handle",
                                 !.trace = Append(f.trace, Did("ih.Handle", 0))]]
        /\ UNCHANGED restH

\* h.ih.Handle returns err in goroutine g, and Handle returns
HandleReturn(g, err) ==
    LET f == calls[g]
        k == CHOOSE k \in DOMAIN shared.invoked : shared.invoked[k].by.n = f.n
    IN  /\ f.pc = "ih.Handle"
        /\ shared' = Inner([shared.invoked EXCEPT ![k].err = err], shared.started)
        /\ calls' = [calls EXCEPT ![g] =
                       [f EXCEPT !.pc = "returned",
                                 !.ret = HandleReturns(err),
                                 !.trace = f.trace \o <<Did("ih.Handle returned", 0),
                                                        Did("returned", 0)>>]]
        /\ UNCHANGED <<sink, restH>>

\* Goroutines that log through one shared Logger, each with its context.
NextHandle ==
    \/ \E g \in Goroutines, l \in Loggers, c \in Ctxs, own \in OwnAttrs :
          HandleCall(g, l, c, own)
    \/ \E g \in Goroutines : HandleRange(g)
    \/ \E g \in Goroutines : HandleInner(g)
    \/ \E g \in Goroutines, err \in IhErrors : HandleReturn(g, err)

SpecHandle == InitHandle /\ [][NextHandle]_vars

\* Every operation.
Next ==
    \/ NextBind
    \/ NextAttrs
    \/ \E l \in Loggers, d \in Descs : CallWithContextAttrs(l, d)
    \/ \E level \in LogLevels : SetLogLevel(level)

Spec == Init /\ [][Next]_vars

\* ------------------------------------------------------------ claims
\* the values of the attributes with the given key, in record order
ValuesOf(attrs, key) ==
    LET s == SelectSeq(attrs, LAMBDA a : a.key = key)
    IN  [i \in DOMAIN s |-> s[i].val]

\* the sink has received a record
Logged == sink.h # 0

\* C1 -- Attr resolution precedence.  A descriptor with a non-empty key and
\* no custom formatter contributes the resolver's value when a resolver is
\* present and finds one in the context of the call; otherwise its static
\* default when that is not nil; otherwise no attribute at all.
C1_Expected(d, c) ==
    LET r == IF d.getFn # "nil" THEN CallGetFn(d.getFn, ctxs, c) ELSE Found(Nil, FALSE)
    IN  IF d.getFn # "nil" /\ r.ok THEN <<MkAttr(d.key, r.value)>>
        ELSE IF d.defaultValue # Nil THEN <<MkAttr(d.key, d.defaultValue)>>
        ELSE <<>>

C1_AttrPrecedence ==
    Logged =>
        LET d == handlers[sink.h].attrs[1]
        IN  (d.key # "" /\ d.setFn = "nil") => sink.attrs = C1_Expected(d, sink.ctx)

\* a descriptor with both a static default and a resolver was logged with a
\* context in which the resolver finds a value: the resolver's value is emitted
C1_Witness ==
    /\ Logged
    /\ LET d == handlers[sink.h].attrs[1]
       IN  /\ d.key # "" /\ d.setFn = "nil" /\ d.getFn # "nil"
           /\ d.defaultValue # Nil
           /\ CallGetFn(d.getFn, ctxs, sink.ctx).ok
           /\ sink.attrs = <<MkAttr(d.key, CallGetFn(d.getFn, ctxs, sink.ctx).value)>>
           /\ sink.attrs # <<MkAttr(d.key, d.defaultValue)>>

\* an identifier that is set and not the zero identifier
NonZero(id) == id # Nil /\ ~IsZero(id)

\* C2 -- Lineage advancement.  Every context WithChildLogContext(S) returned
\* has parent id GetLogID(S) (unset when S has none) and as current id the
\* id the installed generator returned next; when that generator is the
\* counting generator and issued every id so far, the new current id differs
\* from GetLogID(S) and from GetParentLogID(S).
C2_LineageAdvances ==
    \A n \in DOMAIN made :
        made[n].op = "WithChildLogContext" =>
            LET S == made[n].src
            IN  /\ GetParentLogID(ctxs, n) = GetLogID(ctxs, S)
                /\ GetLogID(ctxs, n) = made[n].id
                /\ made[n].id \in NewIDs(made[n].gen)
                /\ (made[n].gen.kind = "CountUpIDGen" /\ made[n].sole) =>
                       /\ GetLogID(ctxs, n) # GetLogID(ctxs, S)
                       /\ GetLogID(ctxs, n) # GetParentLogID(ctxs, S)

\* under the counting generator a child bind ran on a context that carried
\* both a current and a parent id
C2_Witness ==
    \E n \in DOMAIN made :
        /\ made[n].op = "WithChildLogContext"
        /\ made[n].gen.kind = "CountUpIDGen" /\ made[n].sole
        /\ NonZero(GetLogID(ctxs, made[n].src))
        /\ NonZero(GetParentLogID(ctxs, made[n].src))
        /\ GetParentLogID(ctxs, n) = GetLogID(ctxs, made[n].src)
        /\ NonZero(GetLogID(ctxs, n))

\* C3 -- Non-mutation of snapshots.  No step of WithLogContext,
\* WithChildLogContext, Logger.WithContext or Logger.WithChildContext changes
\* what GetLogID and GetParentLogID return for a context that existed before
\* the step.
C3_SnapshotsUnchanged ==
    [][\A S \in DOMAIN ctxs \cup {Background} :
           /\ S \in DOMAIN ctxs' \cup {Background}
           /\ GetLogID(ctxs', S) = GetLogID(ctxs, S)
           /\ GetParentLogID(ctxs', S) = GetParentLogID(ctxs, S)]_vars

\* a bind ran on a context S that carried an id: the context it returned
\* carries another current id while S still reads the id it was made with
C3_Witness ==
    \E n \in DOMAIN made :
        LET S == made[n].src
        IN  /\ made[n].op \in {"WithLogContext", "WithChildLogContext"}
            /\ S # Background
            /\ made[S].op \in {"WithLogContext", "WithChildLogContext"}
            /\ NonZero(made[S].id)
            /\ GetLogID(ctxs, S) = made[S].id
            /\ GetLogID(ctxs, n) # GetLogID(ctxs, S)

\* C4 -- Zero-identifier omission on the unbound logger.  A record logged
\* through a logger that was not made by Bind has no logId attribute when the
\* context of the call carries no (or a zero) current id, and no parentLogId
\* attribute when it carries no (or a zero) parent id; Background, the context
\* of the entry points without a context, carries neither.
C4_UnboundOmitsUnsetIds ==
    (Logged /\ bound[sink.h].op = "none") =>
        /\ ~NonZero(GetLogID(ctxs, sink.ctx)) => ValuesOf(sink.attrs, keyLogId) = <<>>
        /\ ~NonZero(GetParentLogID(ctxs, sink.ctx))
               => ValuesOf(sink.attrs, keyParentLogId) = <<>>
        /\ sink.ctx = Background => sink.attrs = <<>>

\* the default logger logged without a context after ids were bound to other
\* contexts, and the record carries neither key
C4_Witness ==
    /\ Logged /\ bound[sink.h].op = "none"
    /\ sink.ctx = Background
    /\ \E c \in held : NonZero(GetLogID(ctxs, c))
    /\ sink.attrs = <<>>

\* C5 -- A zero identifier never appears in output.  In every record handed
\* to the inner sink an attribute with key logId or parentLogId carries the
\* rendering of a non-zero identifier, never the empty string.
C5_ZeroIdNeverEmitted ==
    Logged =>
        \A i \in DOMAIN sink.attrs :
            sink.attrs[i].key \in {keyLogId, keyParentLogId} => sink.attrs[i].val # Str("")

\* C6 -- Bind pins the current id.  Every record logged without a context
\* through the logger L of (newCtx, L) = Logger.WithContext(ctx) carries
\* exactly one logId, GetLogID(newCtx).String(), and carries parentLogId =
\* GetParentLogID(ctx).String() exactly when that parent id is non-zero.
C6_BindPinsIds ==
    (Logged /\ bound[sink.h].op # "none" /\ sink.ctx = Background) =>
        LET b == bound[sink.h]
            pid == GetParentLogID(ctxs, b.inner)
        IN  /\ ValuesOf(sink.attrs, keyLogId) = <<Str(String(GetLogID(ctxs, b.newCtx)))>>
            /\ ValuesOf(sink.attrs, keyParentLogId) =
                   IF NonZero(pid) THEN <<Str(String(pid))>> ELSE <<>>

\* a logger bound to a context with a non-zero parent id logged without a
\* context, and the record carries both pinned ids
C6_Witness ==
    /\ Logged /\ bound[sink.h].op = "WithContext" /\ sink.ctx = Background
    /\ NonZero(GetParentLogID(ctxs, bound[sink.h].ctx))
    /\ NonZero(GetLogID(ctxs, bound[sink.h].newCtx))
    /\ Len(ValuesOf(sink.attrs, keyLogId)) = 1
    /\ Len(ValuesOf(sink.attrs, keyParentLogId)) = 1

\* the context Logger.WithChildContext(P) returns: its parent id is
\* GetLogID(P) and its current id is the last id the call drew
C7_ChildContext(b) ==
    /\ GetParentLogID(ctxs, b.newCtx) = GetLogID(ctxs, b.ctx)
    /\ GetLogID(ctxs, b.newCtx) = b.drawn[Len(b.drawn)]

\* the records logged without a context through the logger of
\* Logger.WithChildContext(P): logId=c followed by parentLogId=p
C7_ChildRecords ==
    (Logged /\ bound[sink.h].op = "WithChildContext" /\ sink.ctx = Background) =>
        LET b == bound[sink.h]
            p == GetLogID(ctxs, b.ctx)
        IN  sink.attrs =
                <<MkAttr(keyLogId, Str(String(GetLogID(ctxs, b.newCtx))))>> \o
                (IF NonZero(p) THEN <<MkAttr(keyParentLogId, Str(String(p)))>> ELSE <<>>)

\* Bind on Background and then BindChild on the context it returned, with the
\* counting generator installed before any id was drawn, as handler h
C7_CountingScenario(h) ==
    /\ bound[h].op = "WithChildContext"
    /\ bound[h].ctx # Background
    /\ \E l0 \in DOMAIN bound :
           /\ bound[l0].op = "WithContext"
           /\ bound[l0].ctx = Background
           /\ bound[l0].newCtx = bound[h].ctx
    /\ made[bound[h].ctx].gen = [kind |-> "CountUpIDGen", cnt |-> 0]
    /\ made[bound[h].newCtx].gen = [kind |-> "CountUpIDGen", cnt |-> 1]

C7_CountingRecords ==
    (Logged /\ sink.ctx = Background /\ C7_CountingScenario(sink.h)) =>
        sink.attrs = << MkAttr(keyLogId, Str("0000000000000001")),
                        MkAttr(keyParentLogId, Str("0000000000000000")) >>

\* C7 as stated -- BindChild is child bind followed by Bind, and the call
\* draws a single fresh id c: GetParentLogID(childCtx) = p, GetLogID(childCtx)
\* = c, records without a context carry logId=c followed by parentLogId=p,
\* and the counting scenario yields logId=...0001 parentLogId=...0000.
C7_BindChildSingleDraw ==
    /\ \A h \in DOMAIN bound :
           (bound[h].op = "WithChildContext" /\ NonZero(GetLogID(ctxs, bound[h].ctx))) =>
               /\ Len(bound[h].drawn) = 1
               /\ C7_ChildContext(bound[h])
    /\ C7_ChildRecords
    /\ C7_CountingRecords

\* C7 -- BindChild is child bind followed by Bind.  GetParentLogID(childCtx)
\* = p; GetLogID(childCtx) is the last id c the call drew, which is the only
\* one unless the first id drawn is the zero identifier (then Bind draws a
\* second); records without a context carry logId=c followed by
\* parentLogId=p; the counting scenario yields logId=...0001
\* parentLogId=...0000.
C7_BindChild ==
    /\ \A h \in DOMAIN bound :
           bound[h].op = "WithChildContext" =>
               /\ Len(bound[h].drawn) = (IF IsZero(bound[h].drawn[1]) THEN 2 ELSE 1)
               /\ C7_ChildContext(bound[h])
    /\ C7_ChildRecords
    /\ C7_CountingRecords

\* the counting scenario ran and its logger logged without a context
C7_Witness ==
    /\ Logged /\ sink.ctx = Background
    /\ C7_CountingScenario(sink.h)
    /\ Len(bound[sink.h].drawn) = 1
    /\ sink.attrs = << MkAttr(keyLogId, Str("0000000000000001")),
                       MkAttr(keyParentLogId, Str("0000000000000000")) >>

\* C8 -- Live context overrides pinned defaults.  A record logged through a
\* logger made by Bind or BindChild carries the current id of the context of
\* the call when that is non-zero, and its parent id when that is non-zero,
\* whatever the logger has pinned.
C8_LiveContextOverrides ==
    (Logged /\ bound[sink.h].op # "none") =>
        LET cur == GetLogID(ctxs, sink.ctx)
            par == GetParentLogID(ctxs, sink.ctx)
        IN  /\ NonZero(cur) => ValuesOf(sink.attrs, keyLogId) = <<Str(String(cur))>>
            /\ NonZero(par) => ValuesOf(sink.attrs, keyParentLogId) = <<Str(String(par))>>

\* a bound logger logged with a live context whose two ids are non-zero and
\* whose current id is not the one the logger has pinned
C8_Witness ==
    /\ Logged /\ bound[sink.h].op # "none"
    /\ NonZero(GetLogID(ctxs, sink.ctx))
    /\ NonZero(GetParentLogID(ctxs, sink.ctx))
    /\ handlers[sink.h].attrs[1].defaultValue # Str(String(GetLogID(ctxs, sink.ctx)))
    /\ sink.attrs = << MkAttr(keyLogId, Str(String(GetLogID(ctxs, sink.ctx)))),
                       MkAttr(keyParentLogId, Str(String(GetParentLogID(ctxs, sink.ctx)))) >>

\* the non-id descriptors of handler h
Others(h) == SelectSeq(handlers[h].attrs, LAMBDA a : ~IsIdKey(a))

Emitted == {sink.attrs[i] : i \in DOMAIN sink.attrs}

\* what C9 says of descriptor d of the receiver of the Bind that made the
\* logger of the last record: the pinned value when the call's context gives
\* the resolver nothing, the live value instead when it gives one
C9_Pinned(d) ==
    LET b == bound[sink.h]
        v == CallGetFn(d.getFn, ctxs, b.ctx).value
        live == CallGetFn(d.getFn, ctxs, sink.ctx)
    IN  /\ sink.ctx = Background => MkAttr(d.key, v) \in Emitted
        /\ live.ok =>
               /\ MkAttr(d.key, live.value) \in Emitted
               /\ live.value # v => MkAttr(d.key, v) \notin Emitted

\* the descriptors of the receiver whose resolver finds a value in the
\* context the logger of the last record was bound to
C9_Found ==
    LET b == bound[sink.h]
        ds == Others(b.recv)
    IN  {i \in DOMAIN ds :
            ds[i].getFn # "nil" /\ CallGetFn(ds[i].getFn, ctxs, b.ctx).ok}

\* C9 as stated -- Bind pins non-id descriptors: for every non-id descriptor
\* of the receiver whose resolver finds v in ctx, the bound logger emits key=v
\* on calls without a context and the live context's value instead when the
\* resolver finds one there.
C9_BindPinsEveryDescriptor ==
    (Logged /\ bound[sink.h].op = "WithContext") =>
        \A i \in C9_Found : C9_Pinned(Others(bound[sink.h].recv)[i])

\* C9 -- Bind pins non-id descriptors with a non-empty key: for every such
\* descriptor of the receiver whose resolver finds v in ctx, the bound logger
\* emits key=v on calls without a context and the live context's value
\* instead when the resolver finds one there.
C9_BindPinsDescriptors ==
    (Logged /\ bound[sink.h].op = "WithContext") =>
        \A i \in C9_Found :
            LET d == Others(bound[sink.h].recv)[i]
            IN  d.key # "" => C9_Pinned(d)

\* a logger bound to a context holding value1 logged without a context and
\* the record carries key1=value1
C9_Witness ==
    /\ Logged /\ bound[sink.h].op = "WithContext" /\ sink.ctx = Background
    /\ \E i \in C9_Found :
           LET d == Others(bound[sink.h].recv)[i]
           IN  /\ d.key = "key1"
               /\ CallGetFn(d.getFn, ctxs, bound[sink.h].ctx).value = Str("value1")
    /\ MkAttr("key1", Str("value1")) \in Emitted

\* C10 -- Bind preserves key, resolver and formatter: the descriptor
\* Logger.WithContext derives from each non-id descriptor d of the receiver
\* has d's key, d's resolver and d's formatter.
C10_BindPreservesFormatter ==
    \A h \in DOMAIN bound :
        bound[h].op # "none" =>
            LET old == Others(bound[h].recv)
                new == Others(h)
            IN  /\ Len(new) = Len(old)
                /\ \A i \in DOMAIN old :
                       /\ new[i].key = old[i].key
                       /\ new[i].getFn = old[i].getFn
                       /\ new[i].setFn = old[i].setFn

\* the derivations of ContextHandler that go through clone alone
CloneOps == {"WithContextAttrs", "WithAttrs", "WithGroup"}


\* what C11 says of one step
C11_Step ==
    /\ \A c \in DOMAIN chs :
           chs[c].by \in CloneOps =>
               \/ AttrsOf(arrays', chs', c) = AttrsOf(arrays, chs, c)
               \/ AttrsOf(arrays', chs', chs[c].from) = AttrsOf(arrays, chs, chs[c].from)
    /\ \A c \in DOMAIN chs' \ DOMAIN chs :
           chs'[c].by \in CloneOps =>
               AttrsOf(arrays', chs', chs'[c].from) = AttrsOf(arrays, chs, chs'[c].from)

\* C11 -- Clone independence.  For c derived from h by WithContextAttrs,
\* WithAttrs or WithGroup: c resolves exactly the descriptors it was given at
\* the derivation and by AddContextAttr calls on c itself; no step changes the
\* descriptors of both h and c; and the derivation leaves the descriptors of
\* h as they were.
C11_CloneIndependence ==
    /\ [](\A c \in DOMAIN chs :
             chs[c].by \in CloneOps => AttrsOf(arrays, chs, c) = chs[c].own)
    /\ [][C11_Step]_vars

\* a clone and the object it was derived from each hold a descriptor the
\* other does not resolve
C11_Witness ==
    \E c \in DOMAIN chs :
        /\ chs[c].by \in CloneOps
        /\ \E d \in Range(AttrsOf(arrays, chs, c)) :
               d \notin Range(AttrsOf(arrays, chs, chs[c].from))
        /\ \E d \in Range(AttrsOf(arrays, chs, chs[c].from)) :
               d \notin Range(AttrsOf(arrays, chs, c))

\* C12 -- AddContextAttr(d) returns a clone and leaves the receiver's own
\* descriptor list unchanged: the receiver resolves the same descriptors
\* before and after the call.
C12_AddContextAttrLeavesReceiver ==
    [][probe'.op = "AddContextAttr" =>
           AttrsOf(arrays', chs', probe'.h) = AttrsOf(arrays, chs, probe'.h)]_vars

\* C13 -- SetContextAttrs(list) returns a clone that shares no mutable
\* backing storage: a ContextHandler made by SetContextAttrs always resolves
\* the descriptors of list at the call followed by those AddContextAttr calls
\* on itself gave it, whatever is added to other objects or appended to list.
C13_NoSharedStorage ==
    \A h \in DOMAIN chs :
        chs[h].by = "SetContextAttrs" => AttrsOf(arrays, chs, h) = chs[h].own

\* what a step of the Logger calls leaves of every Logger that exists
C14_Step ==
    \A h \in DOMAIN chs :
        /\ AttrsOf(arrays', chs', h) = AttrsOf(arrays, chs, h)
        /\ chs'[h].ih = chs[h].ih

C20_NoLoggerWithoutSink ==
    probe.op # "none" =>
        /\ probe.logger.t = "Logger" => probe.logger.sl \in DOMAIN chs
        /\ (probe.op = "newLogger" /\ probe.h = 0) =>
               (panicked /\ probe.logger = NoLogger)

\* newLogger(nil) was called
C20_Witness == probe.op = "newLogger" /\ probe.h = 0 /\ panicked

\* C15: for every logging entry point, when the inner handler's Enabled
\* returns false for the level of the call, the inner handler's Handle is not
\* invoked, no resolver and no formatter is invoked, and no record is
\* delivered.
C15_LevelGating ==
    [][(probe'.op \in Entries /\ probe' # probe /\ ~Enabled(logLevel, probe'.level)) =>
           /\ ~probe'.out.handled
           /\ probe'.out.getFn = 0 /\ probe'.out.setFn = 0
           /\ sink' = sink]_vars

\* a Debug call under threshold INFO on a handler whose descriptor has a
\* resolver and a formatter, after a call that was delivered
C15_Witness ==
    /\ probe.op = "DebugContext" /\ logLevel = "INFO"
    /\ ~probe.out.handled
    /\ Invoked(handlers[probe.h].attrs).getFn > 0
    /\ Logged

\* the value the formatter of descriptor d is given in context c
C16_Given(d, c) ==
    LET r == IF d.getFn # "nil" THEN CallGetFn(d.getFn, ctxs, c) ELSE Found(Nil, FALSE)
    IN  IF d.getFn # "nil" /\ r.ok THEN r.value ELSE d.defaultValue

\* C16: a descriptor with a custom formatter contributes exactly what the
\* formatter returns for the value it is given: nothing when it returns
\* keep=false (the value "ignored", or a value that is no string), also when
\* the descriptor has a static default; the renamed attribute
\* key1-custom=<value>-custom; the group group1 for the value "group".
C16_CustomFormatter ==
    Logged =>
        LET d == handlers[sink.h].attrs[1]
            v == C16_Given(d, sink.ctx)
        IN  (d.key # "" /\ d.setFn = "custom") =>
                /\ sink.attrs = IF CustomSetFn(d.key, v).ok
                                THEN <<CustomSetFn(d.key, v).attr>> ELSE <<>>
                /\ (v = Str("ignored") \/ v.t # "string") => sink.attrs = <<>>
                /\ v = Str("group") => sink.attrs = <<MkAttr("group1", Group(d.key, "group"))>>
                /\ v = Str("value1") => sink.attrs = <<MkAttr("key1-custom", Str("value1-custom"))>>
                /\ v = Str("defaultValue") =>
                       sink.attrs = <<MkAttr("key1-custom", Str("defaultValue-custom"))>>

\* the formatter dropped the value "ignored" of a descriptor that has a
\* static default
C16_Witness ==
    /\ Logged
    /\ LET d == handlers[sink.h].attrs[1]
       IN  /\ d.key # "" /\ d.setFn = "custom" /\ d.defaultValue = Str("defaultValue")
           /\ C16_Given(d, sink.ctx) = Str("ignored")
           /\ sink.attrs = <<>>

\* the node of context c that ctx.Value(key) reads, 0 when there is none
RECURSIVE C17_Slot(_, _)
C17_Slot(c, key) ==
    IF c = Background THEN 0
    ELSE IF ctxs[c].key = key THEN c
    ELSE C17_Slot(ctxs[c].parent, key)

\* context c holds no string under ctxKey1: no value, nil, or another type
C17_NoString(c) ==
    \/ C17_Slot(c, ctxKey1) = 0
    \/ ctxs[C17_Slot(c, ctxKey1)].val \in {Nil, IntVal}

\* the id slot key of context c is unset or holds something that is no LogID
C17_NoId(c, key) ==
    \/ C17_Slot(c, key) = 0
    \/ ~IsLogID(ctxs[C17_Slot(c, key)].val)

\* the descriptors attrs with every GetFn[string] resolver taken away
C17_Unresolved(attrs) ==
    [i \in DOMAIN attrs |->
        IF attrs[i].getFn = "GetFn"
        THEN Context(attrs[i].key, attrs[i].defaultValue, "nil", attrs[i].setFn)
        ELSE attrs[i]]

\* C17: a value of an unexpected type reads as absent. GetFn[string] reports
\* found=false for a context with no value, a nil value or a value of
\* another type under its key, and a record logged with such a context
\* carries what it would carry if the descriptors had no such resolver (the
\* static default or nothing); GetLogID and
\* GetParentLogID return nil when their slot is unset or holds no LogID; and no
\* call panics unless a registered descriptor has no resolver at all.
C17_UnexpectedTypeIsAbsent ==
    /\ \A c \in Ctxs :
        /\ C17_NoString(c) => ~GetFnString(ctxs, c, ctxKey1).ok
        /\ C17_NoId(c, keyLogID) => GetLogID(ctxs, c) = Nil
        /\ C17_NoId(c, keyParentLogID) => GetParentLogID(ctxs, c) = Nil
    /\ (Logged /\ C17_NoString(sink.ctx)) =>
           sink.attrs = Handle(C17_Unresolved(handlers[sink.h].attrs), ctxs, sink.ctx)
    /\ panicked =>
           \E l \in Loggers : \E i \in DOMAIN handlers[l].attrs :
               handlers[l].attrs[i].getFn = "nil"

\* a record was logged with a context that holds an int under ctxKey1 through
\* a handler whose descriptor resolves a string, after a bind on a context
\* whose id slot holds nil
C17_Witness ==
    /\ Logged /\ ~panicked
    /\ sink.ctx # Background
    /\ C17_Slot(sink.ctx, ctxKey1) # 0
    /\ ctxs[C17_Slot(sink.ctx, ctxKey1)].val = IntVal
    /\ \E i \in DOMAIN handlers[sink.h].attrs :
           /\ handlers[sink.h].attrs[i].getFn = "GetFn"
           /\ handlers[sink.h].attrs[i].key = "key1"
    /\ \E c \in Ctxs : C17_Slot(c, keyLogID) # 0 /\ ctxs[C17_Slot(c, keyLogID)].val = Nil

\* the contexts WithChildLogContext(P) returned
C18_Children(P) ==
    {n \in DOMAIN made : made[n].op = "WithChildLogContext" /\ made[n].src = P}

\* the values a record carries for an id attribute when the id is id
C18_IdAttr(id) == IF NonZero(id) THEN <<Str(String(id))>> ELSE <<>>

C18_SecondChildLogged ==
    /\ Logged
    /\ \E P \in Ctxs :
           /\ sink.ctx \in C18_Children(P) /\ Cardinality(C18_Children(P)) = 2
           /\ NonZero(GetLogID(ctxs, P))
           /\ ValuesOf(sink.attrs, keyParentLogId) = <<Str(String(GetLogID(ctxs, P)))>>

\* the keys of a sequence of attributes or descriptors
C19_Keys(xs) == [i \in DOMAIN xs |-> xs[i].key]

\* ks can be got from ds by leaving elements out
RECURSIVE C19_IsSubseq(_, _)
C19_IsSubseq(ks, ds) ==
    IF Len(ks) = 0 THEN TRUE
    ELSE IF Len(ds) = 0 THEN FALSE
    ELSE IF ks[1] = ds[1] THEN C19_IsSubseq(Tail(ks), Tail(ds))
    ELSE C19_IsSubseq(ks, Tail(ds))

\* C19: the record delivered to the inner handler starts with the attributes
\* the call gave it, followed by the context-derived attributes in the order
\* of the descriptors; the descriptors of the provider's handler and of every
\* bound logger are logId, parentLogId and then the registered descriptors in
\* the order of their registration.
C19_AttributeOrder ==
    (probe.op \in Entries /\ probe.out.handled) =>
        LET n == Len(probe.own)
            got == probe.out.attrs
            ds == handlers[probe.h].attrs
        IN  /\ Len(got) >= n
            /\ SubSeq(got, 1, n) = probe.own
            /\ C19_IsSubseq(C19_Keys(SubSeq(got, n + 1, Len(got))), C19_Keys(ds))
            /\ probe.h > 1 =>
                   C19_Keys(ds) = <<keyLogId, keyParentLogId>>
                                      \o C19_Keys(SubSeq(handlers[2].attrs, 3, 4))

\* a bound logger delivered a record with an attribute of the call, both
\* ids and both registered descriptors
C19_Witness ==
    /\ probe.op \in Entries /\ probe.out.handled
    /\ bound[probe.h].op = "WithContext"
    /\ Len(probe.own) = 1
    /\ Len(probe.out.attrs) = 5
    /\ C19_Keys(probe.out.attrs) =
           <<probe.own[1].key, keyLogId, keyParentLogId>>
               \o C19_Keys(SubSeq(handlers[2].attrs, 3, 4))

\* what Logger.WithContext(ctx) did as the bind recorded in b: nothing when
\* ctx carries a non-zero current id, one draw otherwise
C24_Bind(b) ==
    IF NonZero(GetLogID(ctxs, b.ctx))
    THEN b.newCtx = b.ctx /\ b.drawn = <<>>
    ELSE /\ Len(b.drawn) = 1
         /\ GetLogID(ctxs, b.newCtx) = b.drawn[1]
         /\ GetParentLogID(ctxs, b.newCtx) = GetParentLogID(ctxs, b.ctx)

\* C24 as stated: Logger.WithContext(ctx) returns ctx itself and draws no id
\* when ctx carries a non-zero current id, otherwise it draws exactly one id,
\* which becomes the current id, and leaves the parent id; Logger.WithChildContext
\* always draws exactly one id.
C24_ChildBindAlwaysOneDraw ==
    \A h \in DOMAIN bound :
        /\ bound[h].op = "WithContext" => C24_Bind(bound[h])
        /\ bound[h].op = "WithChildContext" => Len(bound[h].drawn) = 1

\* C24: Logger.WithContext(ctx) returns ctx itself and draws no id when ctx
\* carries a non-zero current id, otherwise it draws exactly one id, which
\* becomes the current id, and leaves the parent id; Logger.WithChildContext
\* draws one id, and a second one when the first is the zero identifier.
C24_BindDrawsWhenNeeded ==
    \A h \in DOMAIN bound :
        /\ bound[h].op = "WithContext" => C24_Bind(bound[h])
        /\ bound[h].op = "WithChildContext" =>
               Len(bound[h].drawn) = (IF IsZero(bound[h].drawn[1]) THEN 2 ELSE 1)

\* Logger.WithContext ran on a context with a non-zero current id and handed
\* it back without a draw
C24_Witness ==
    \E h \in DOMAIN bound :
        /\ bound[h].op = "WithContext"
        /\ bound[h].ctx # Background
        /\ NonZero(GetLogID(ctxs, bound[h].ctx))
        /\ bound[h].newCtx = bound[h].ctx
        /\ bound[h].drawn = <<>>

\* C28: Logger.WithContext completes without a panic on every receiver whose
\* descriptors ContextAttr.Attr handles, among them a non-id descriptor that
\* has a static default and no resolver.
C28_BindNeverPanics ==
    (\A l \in Loggers : \A i \in DOMAIN handlers[l].attrs :
         handlers[l].attrs[i].getFn \in GetFns /\ handlers[l].attrs[i].setFn \in SetFns)
        => ~panicked

\* the non-id descriptors of the receiver of the bind recorded in b
C29_Others(b) == SelectSeq(handlers[b.recv].attrs, LAMBDA a : ~IsIdKey(a))

\* the resolver of descriptor d found nothing in the context the bind
\* recorded in b resolved against
C29_NotFound(b, d) == ~CallGetFn(d.getFn, ctxs, b.inner).ok

\* C29: the descriptor list of a logger Logger.WithContext returned is logId,
\* parentLogId and one descriptor per non-id descriptor of the receiver, in
\* the receiver's order, with the same key and resolver; where the resolver
\* found nothing in ctx the derived static default is nil whatever the
\* receiver's default was, and a no-context call through the bound logger
\* carries no attribute of that key.
C29_BindReplacesDefaults ==
    \A h \in DOMAIN bound :
        bound[h].op # "none" =>
            LET b == bound[h]
                others == C29_Others(b)
                D == handlers[h].attrs
            IN  /\ Len(D) = 2 + Len(others)
                /\ D[1].key = keyLogId /\ D[2].key = keyParentLogId
                /\ \A i \in DOMAIN others :
                       /\ D[2 + i].key = others[i].key
                       /\ D[2 + i].getFn = others[i].getFn
                       /\ C29_NotFound(b, others[i]) => D[2 + i].defaultValue = Nil
                /\ (Logged /\ sink.h = h /\ sink.ctx = Background) =>
                       \A i \in DOMAIN others :
                           (\A j \in DOMAIN others :
                                others[j].key = others[i].key => C29_NotFound(b, others[j]))
                               => ValuesOf(sink.attrs, others[i].key) = <<>>

\* a logger was bound on a context in which the resolver of a descriptor with
\* a static default found nothing, and a no-context call through it carries
\* no key1
C29_Witness ==
    /\ Logged /\ sink.ctx = Background
    /\ bound[sink.h].op = "WithContext"
    /\ LET others == C29_Others(bound[sink.h])
       IN  /\ Len(others) = 1
           /\ others[1].key = "key1"
           /\ others[1].defaultValue = Str("defaultValue")
           /\ C29_NotFound(bound[sink.h], others[1])
           /\ handlers[sink.h].attrs[3].defaultValue = Nil
    /\ ValuesOf(sink.attrs, "key1") = <<>>
    /\ ValuesOf(sink.attrs, keyLogId) # <<>>

\* C30: for (newCtx, L) = Logger.WithContext(ctx), a call through L with no
\* context and a call through L with newCtx resolve the same attributes, in
\* keys, values and order, and a record delivered for either call carries
\* what the other call resolves.
C30_PinningEquivalence ==
    \A h \in DOMAIN bound :
        bound[h].op = "WithContext" =>
            LET D == handlers[h].attrs
                n == bound[h].newCtx
            IN  /\ Handle(D, ctxs, Background) = Handle(D, ctxs, n)
                /\ (Logged /\ sink.h = h /\ sink.ctx = n) =>
                       sink.attrs = Handle(D, ctxs, Background)
                /\ (Logged /\ sink.h = h /\ sink.ctx = Background) =>
                       sink.attrs = Handle(D, ctxs, n)

\* a logger bound on a context that carries a value under ctxKey1 delivered a
\* record for a call with newCtx that carries logId and key1
C30_Witness ==
    /\ Logged
    /\ bound[sink.h].op = "WithContext"
    /\ sink.ctx = bound[sink.h].newCtx
    /\ sink.ctx # Background
    /\ ValuesOf(sink.attrs, keyLogId) # <<>>
    /\ ValuesOf(sink.attrs, "key1") = <<Str("value1")>>
    /\ sink.attrs = Handle(handlers[sink.h].attrs, ctxs, Background)

\* the values a record carries for a descriptor's static default
C27_Default(d) == IF d.defaultValue # Nil THEN <<d.defaultValue>> ELSE <<>>

\* C27: a record logged through a logger Logger.WithContext or
\* Logger.WithChildContext returned carries as (logId, parentLogId) either the
\* pair of the context of the call or the pair pinned in the logger, never
\* the current id of one with the parent id of the other.
C27_LineagePairConsistent ==
    (Logged /\ bound[sink.h].op # "none") =>
        LET D == handlers[sink.h].attrs
            got == <<ValuesOf(sink.attrs, keyLogId), ValuesOf(sink.attrs, keyParentLogId)>>
            live == <<C18_IdAttr(GetLogID(ctxs, sink.ctx)),
                      C18_IdAttr(GetParentLogID(ctxs, sink.ctx))>>
            pinned == <<C27_Default(D[1]), C27_Default(D[2])>>
        IN  got = live \/ got = pinned

\* C26: every handler a Logger wraps, after any chain of NewLogger, With,
\* WithGroup, WithContextAttrs, WithContext and WithChildContext, is a
\* *ContextHandler, and contextHandler() on any of these Loggers returns it
\* without the panic "invalid Handler".
C26_SinkTypeInvariant ==
    /\ \A l \in DOMAIN chs : IsContextHandler(chs[l])
    /\ probe.op = "contextHandler" => (~panicked /\ probe.logger = Logger(probe.h))
    /\ (probe.op \notin {"none", "newLogger"} /\ probe.logger.t = "Logger") =>
           /\ probe.logger.sl \in DOMAIN chs
           /\ IsContextHandler(chs[probe.logger.sl])

\* contextHandler() was called on a Logger made by WithGroup or With from a
\* Logger that Logger.WithContext returned
C26_Witness ==
    /\ probe.op = "contextHandler" /\ ~panicked
    /\ chs[probe.h].by \in {"WithAttrs", "WithGroup"}
    /\ chs[chs[probe.h].from].by = "SetContextAttrs"

\* C22: concurrent NewID calls on the default generator exclude each other
\* on the pseudorandom source: at most one goroutine is inside
\* randSource.Read and it holds the mutex; and every call eventually acquires
\* the mutex, returns an identifier and has released the mutex.
C22_GeneratorSafety ==
    /\ [](/\ Cardinality(shared.readers) <= 1
          /\ \A g \in shared.readers : shared.mutex = g)
    /\ \A g \in Goroutines :
           (calls[g].pc = "Lock") ~>
               (calls[g].pc = "idle" /\ IsLogID(calls[g].id) /\ shared.mutex # g)

\* a goroutine waits in Lock while another one reads from the source
C22_Witness ==
    \E g1, g2 \in Goroutines :
        /\ calls[g1].pc = "Lock"
        /\ calls[g2].pc = "Reading"
        /\ shared.mutex = g2 /\ shared.readers = {g2}

\* the invocations of the inner handler's Handle that the call of frame f made
C21_Invocations(f) ==
    {k \in DOMAIN shared.invoked : shared.invoked[k].by.n = f.n}

\* C21: ContextHandler.Handle invokes the inner handler's Handle exactly
\* once per call, after its loop, with the caller's context and the
\* caller's record augmented by what the descriptors resolve in that
\* context, and returns exactly the error the inner handler returned.
C21_InnerHandleOnce ==
    \A g \in Goroutines :
        LET f == calls[g]
        IN  /\ f.pc \in {"idle", "range"} => C21_Invocations(f) = {}
            /\ f.pc \in {"ih.Handle", "returned"} =>
                 /\ Cardinality(C21_Invocations(f)) = 1
                 /\ \A k \in C21_Invocations(f) :
                      /\ shared.invoked[k].ctx = f.ctx
                      /\ shared.invoked[k].r =
                           f.own \o Handle(handlers[f.h].attrs, ctxs, f.ctx)
                      /\ f.pc = "returned" => f.ret = shared.invoked[k].err

\* a call whose descriptors resolved something has returned the inner
\* handler's error
C21_Witness ==
    \E g \in Goroutines :
        /\ calls[g].pc = "returned"
        /\ calls[g].ret = Str("write error")
        /\ Len(calls[g].r) > Len(calls[g].own)
        /\ calls[g].ctx # Background

\* what one Handle call on descriptors attrs does, in order
C25_Steps(attrs) ==
    [i \in 1..Len(attrs) |-> Did("Attr", i)]
        \o <<Did("ih.Handle", 0), Did("ih.Handle returned", 0), Did("returned", 0)>>

\* C25: inside one Handle call the descriptors are resolved in list order,
\* each once, all of them before the inner handler's Handle is invoked, and
\* that invocation has returned when Handle returns; a call that returned
\* has done all of it.
C25_HandleStepOrder ==
    \A g \in Goroutines :
        LET f == calls[g]
            steps == C25_Steps(handlers[f.h].attrs)
        IN  f.pc # "idle" =>
              /\ Len(f.trace) <= Len(steps)
              /\ f.trace = SubSeq(steps, 1, Len(f.trace))
              /\ f.pc = "returned" => f.trace = steps
              /\ f.pc = "ih.Handle" => Len(f.trace) = Len(steps) - 2

\* a call on two descriptors has returned while another call is in its loop
C25_Witness ==
    \E g1, g2 \in Goroutines :
        /\ calls[g1].pc = "returned"
        /\ Len(handlers[calls[g1].h].attrs) = 2
        /\ calls[g2].pc = "range" /\ calls[g2].i = 2

\* C23: when goroutines log concurrently through one shared handler, each
\* with its own context, every record the inner handler is given carries
\* the caller's attributes and exactly what the descriptors resolve in the
\* context of the call that made it, and so does every record in the making.
C23_PerCallResolution ==
    /\ \A k \in DOMAIN shared.invoked :
         LET e == shared.invoked[k]
         IN  e.r = e.by.own \o Handle(handlers[e.by.h].attrs, ctxs, e.by.ctx)
    /\ \A g \in Goroutines :
         LET f == calls[g]
         IN  f.pc = "range" =>
               f.r = f.own \o Handle(SubSeq(handlers[f.h].attrs, 1, f.i - 1), ctxs, f.ctx)

\* two calls with different contexts overlapped, the one started last
\* delivered first, and their records differ
C23_Witness ==
    /\ Len(shared.invoked) = 2
    /\ shared.invoked[1].by.n = 2
    /\ shared.invoked[1].by.ctx # shared.invoked[2].by.ctx
    /\ shared.invoked[1].by.own = shared.invoked[2].by.own
    /\ shared.invoked[1].r # shared.invoked[2].r

====
